---- MODULE Spec2Model ----
(***************************************************************************)
(* A model of the file-system engine of fs.c (block allocator, inode       *)
(* cache and locking, block-index map, content I/O, directories, path      *)
(* names, symlink canonicalization) and of the file layer that uses it.    *)
(*                                                                         *)
(* A file-system state is the record                                       *)
(*   [ic: inode cache, di: on-disk inodes, bm: free bitmap, dk: blocks,    *)
(*    halt: "none", a panic message, or "sleep" for a caller that waits    *)
(*    for a busy flag nobody will clear].                                  *)
(* Every routine of fs.c is an operator from such a record (and its        *)
(* arguments) to [st: the record afterwards, ret: the C return value].     *)
(* A block is BSIZE cells; a cell holds one byte of file data, one block   *)
(* number of an index block (sizeof(uint) is one cell) or one directory    *)
(* entry (sizeof(struct dirent) is one cell).                              *)
(***************************************************************************)
EXTENDS Integers, Sequences, FiniteSets, TLC

VARIABLES
  icache,    \* icache.inode[]: slot -> in-memory inode
  dinodes,   \* the inode region of the disk: inum -> dinode
  bitmap,    \* the free bitmap: block number -> in use
  disk,      \* block contents: block number -> [0..BSIZE-1 -> cell]
  halted,    \* "none", or why the kernel stopped (panic message)
  pc,        \* per thread: where it is inside ilock / iput
  hnd,       \* per thread: the cache slot it holds references to, or NoSlot
  nref,      \* per thread: how many references to hnd it holds
  shadow,    \* ghost: inum -> the bytes written to the file so far
  call,      \* ghost: the last completed call (operation, arguments, result)
  frame,     \* the locals of a filereadlink / filereadlinki call in progress
  unlocked_inodes,  \* unlocked_inodes.pids: inum -> [slot -> pid, 0 if free]
  ftable,    \* ftable.file[]: slot -> open file object
  procs,     \* the pids of the live processes
  nextpid,   \* the pid the next fork hands out
  last       \* ghost: the last call of the password layer, and the state before it

vars ==
  <<icache, dinodes, bitmap, disk, halted, pc, hnd, nref, shadow, call, frame,
    unlocked_inodes, ftable, procs, nextpid, last>>

lockvars == <<unlocked_inodes, ftable, procs, nextpid, last>>

-----------------------------------------------------------------------------
(* Program constants.  fs.h, param.h and stat.h are not among the source   *)
(* files; the sizes are scaled down, the relations between them are kept.  *)

NDIRECT == 1
NINDIRECT == 2
BSIZE == 2
MAXFILE == NDIRECT + NINDIRECT + NINDIRECT * NINDIRECT
NINODE == 30
ROOTDEV == 1
ROOTINO == 1
T_DIR == 1
T_FILE == 2
T_DEV == 3
T_SYMLINK == 4
MAX_SYMLINK_LOOPS == 16
NINODES == 3        \* inodes on the device (scaled); inum 0 is unused

(* Bounds of the model. *)
FSSIZE == 14       \* sb.size: blocks on the device (block 0 is metadata)
NTHREADS == 2      \* concurrent kernel threads
MaxRef == 2        \* idup is not called on an entry with this many references
MaxWrites == 2     \* writei calls in one behaviour

NoSlot == 0 - 1
Slots == 0 .. (NINODE - 1)
Inums == 1 .. (NINODES - 1)
Blocks == 0 .. (FSSIZE - 1)
Threads == 1 .. NTHREADS

Min(S) == CHOOSE x \in S : \A y \in S : x <= y
MinOf(a, b) == IF a < b THEN a ELSE b

ZeroBlock == [i \in 0 .. (BSIZE - 1) |-> 0]
ZeroAddrs == [i \in 0 .. NDIRECT |-> 0]

(* struct dinode, and a free slot of the inode region. *)
ZeroDinode ==
  [type |-> 0, nlink |-> 0, size |-> 0, addrs |-> ZeroAddrs, indirect2 |-> 0,
   password |-> <<>>]

(* struct inode, and a cache slot that was never used. *)
ZeroInode ==
  [dev |-> 0, inum |-> 0, ref |-> 0, busy |-> FALSE, valid |-> FALSE,
   type |-> 0, nlink |-> 0, size |-> 0, addrs |-> ZeroAddrs, indirect2 |-> 0,
   password |-> <<>>]

Ret(s, r) == [st |-> s, ret |-> r]
Halt(s, why) == [s EXCEPT !.halt = why]
Ok(s) == s.halt = "none"

(* F applied to the value of v, which is computed once. *)
Bind(v, F(_)) == CHOOSE y \in {F(x) : x \in {v}} : TRUE

(* Sequencing: F runs on the outcome of r unless the kernel stopped. *)
Then(r, F(_, _)) ==
  Bind(r, LAMBDA x : IF Ok(x.st) THEN F(x.st, x.ret) ELSE x)

-----------------------------------------------------------------------------
(* Blocks *)

(* A scan that takes the first block after the metadata, whatever its bit. *)
balloc_pick_first(s) == Min(DOMAIN s.bm \ {0})

(* First block, in bitmap order, whose bit is clear. *)
balloc_pick(s) ==
  LET free == {b \in DOMAIN s.bm : ~s.bm[b]}
  IN  IF free = {} THEN NoSlot ELSE Min(free)

balloc(s) ==
  LET b == balloc_pick(s)
  IN  IF b = NoSlot
      THEN Ret(Halt(s, "balloc: out of blocks"), 0)
      ELSE Ret([s EXCEPT !.bm[b] = TRUE, !.dk[b] = ZeroBlock], b)

bfree(s, b) ==
  IF ~s.bm[b]
  THEN Ret(Halt(s, "freeing free block"), 0)
  ELSE Ret([s EXCEPT !.bm[b] = FALSE], 0)

(* bfree of each block of the sequence bs, in order. *)
RECURSIVE bfreeSeq(_, _)
bfreeSeq(s, bs) ==
  IF bs = <<>> \/ ~Ok(s) THEN Ret(s, 0)
  ELSE bfreeSeq(bfree(s, Head(bs)).st, Tail(bs))

(* The non-zero entries a[0..n-1] of an index array, in index order. *)
NonZero(a, n) == SelectSeq([j \in 1 .. n |-> a[j - 1]], LAMBDA x : x # 0)

-----------------------------------------------------------------------------
(* Inodes *)

(* iupdate: copy the in-memory inode to its dinode. *)
iupdate(s, ip) ==
  LET e == s.ic[ip]
  IN  Ret([s EXCEPT !.di[e.inum] =
             [type |-> e.type, nlink |-> e.nlink, size |-> e.size,
              addrs |-> e.addrs, indirect2 |-> e.indirect2,
              password |-> e.password]], 0)

(* iget that takes an entry for cached only when it is shared already. *)
iget_hit_shared(e, dev, inum) == e.ref > 1 /\ e.dev = dev /\ e.inum = inum

(* iget that passes over an entry whose busy flag is set. *)
iget_hit_idle(e, dev, inum) ==
  e.ref > 0 /\ ~e.busy /\ e.dev = dev /\ e.inum = inum

(* The test of iget's loop for "already cached". *)
iget_hit(e, dev, inum) == e.ref > 0 /\ e.dev = dev /\ e.inum = inum

(* A test for "empty slot" that looks at the busy flag, not the count. *)
iget_empty_idle(e) == ~e.busy

(* The test of iget's loop for "empty slot". *)
iget_empty(e) == e.ref = 0

iget(s, dev, inum) ==
  LET hits == {i \in DOMAIN s.ic : iget_hit(s.ic[i], dev, inum)}
      empties == {i \in DOMAIN s.ic : iget_empty(s.ic[i])}
  IN  IF hits # {}
      THEN LET i == Min(hits)
           IN  Ret([s EXCEPT !.ic[i].ref = @ + 1], i)
      ELSE IF empties = {}
      THEN Ret(Halt(s, "iget: no inodes"), NoSlot)
      ELSE LET i == Min(empties)
           IN  Ret([s EXCEPT !.ic[i].dev = dev, !.ic[i].inum = inum,
                             !.ic[i].ref = 1, !.ic[i].busy = FALSE,
                             !.ic[i].valid = FALSE], i)

idup(s, ip) == Ret([s EXCEPT !.ic[ip].ref = @ + 1], ip)

(* ilock that never waits. *)
ilock_nowait(e) == FALSE

(* ilock, first half: the loop on I_BUSY under icache.lock.  TRUE when the *)
(* caller must sleep.                                                      *)
ilock_mustsleep(e) == e.busy

(* ilock, second half: load the dinode when the entry is not valid. *)
ilock_load(s, ip) ==
  LET e == s.ic[ip]
      d == s.di[e.inum]
  IN  IF e.valid THEN Ret(s, 0)
      ELSE LET s1 == [s EXCEPT !.ic[ip].type = d.type,
                               !.ic[ip].nlink = d.nlink,
                               !.ic[ip].size = d.size,
                               !.ic[ip].addrs = d.addrs,
                               !.ic[ip].indirect2 = d.indirect2,
                               !.ic[ip].password = d.password,
                               !.ic[ip].valid = TRUE]
           IN  IF d.type = 0 THEN Ret(Halt(s1, "ilock: no type"), 0)
               ELSE Ret(s1, 0)

(* ilock as one call of a thread that runs alone: a busy entry means the   *)
(* caller sleeps and is never woken.                                       *)
ilock(s, ip) ==
  IF ip = NoSlot \/ s.ic[ip].ref < 1 THEN Ret(Halt(s, "ilock"), 0)
  ELSE IF ilock_mustsleep(s.ic[ip]) THEN Ret(Halt(s, "sleep"), 0)
  ELSE ilock_load([s EXCEPT !.ic[ip].busy = TRUE], ip)

(* An iunlock that leaves the busy flag set. *)
iunlock_keep(s, ip) == Ret(s, 0)

iunlock(s, ip) ==
  IF ip = NoSlot \/ ~s.ic[ip].busy \/ s.ic[ip].ref < 1
  THEN Ret(Halt(s, "iunlock"), 0)
  ELSE Ret([s EXCEPT !.ic[ip].busy = FALSE], 0)

(* iput's test for "last reference of an inode without links". *)
iput_last(e) == e.ref = 1 /\ e.valid /\ e.nlink = 0


(* itrunc: free every block of the inode, zero its index map and size,     *)
(* and write the inode.                                                    *)
itrunc_direct(s, ip) ==
  LET r == bfreeSeq(s, NonZero(s.ic[ip].addrs, NDIRECT))
  IN  Then(r, LAMBDA s1, x :
        Ret([s1 EXCEPT !.ic[ip].addrs =
               [i \in 0 .. NDIRECT |-> IF i < NDIRECT THEN 0 ELSE @[i]]], 0))

itrunc_indirect(s, ip) ==
  LET ind == s.ic[ip].addrs[NDIRECT]
  IN  IF ind = 0 THEN Ret(s, 0)
      ELSE Then(bfreeSeq(s, NonZero(s.dk[ind], NINDIRECT)), LAMBDA s1, x :
           Then(bfree(s1, ind), LAMBDA s2, y :
             Ret([s2 EXCEPT !.ic[ip].addrs[NDIRECT] = 0], 0)))

(* The inner loop of the double-indirect part, for the entries as[] of the *)
(* double-indirect block: free what each single-indirect block lists, then *)
(* the single-indirect block itself.                                       *)
RECURSIVE itrunc_level2(_, _)
itrunc_level2(s, as) ==
  IF as = <<>> \/ ~Ok(s) THEN Ret(s, 0)
  ELSE Then(bfreeSeq(s, NonZero(s.dk[Head(as)], NINDIRECT)), LAMBDA s1, x :
       Then(bfree(s1, Head(as)), LAMBDA s2, y :
         itrunc_level2(s2, Tail(as))))

(* itrunc without its double-indirect part. *)
itrunc_noindirect2(s, ip) == Ret(s, 0)

itrunc_indirect2(s, ip) ==
  LET dind == s.ic[ip].indirect2
  IN  IF dind = 0 THEN Ret(s, 0)
      ELSE Then(itrunc_level2(s, NonZero(s.dk[dind], NINDIRECT)),
             LAMBDA s1, x :
           Then(bfree(s1, dind), LAMBDA s2, y :
             Ret([s2 EXCEPT !.ic[ip].indirect2 = 0], 0)))

(* An itrunc that frees nothing. *)
itrunc_none(s, ip) == Ret(s, 0)

itrunc(s, ip) ==
  Then(itrunc_direct(s, ip), LAMBDA s1, x :
  Then(itrunc_indirect(s1, ip), LAMBDA s2, y :
  Then(itrunc_indirect2(s2, ip), LAMBDA s3, z :
    iupdate([s3 EXCEPT !.ic[ip].size = 0], ip))))

(* iput, the part between the two critical sections: truncate, clear the   *)
(* type, write the inode.                                                  *)
iput_free(s, ip) ==
  Then(itrunc(s, ip), LAMBDA s1, x :
    iupdate([s1 EXCEPT !.ic[ip].type = 0], ip))

(* iput, second critical section: flags = 0, then ref--. *)
iput_end(s, ip) ==
  Ret([s EXCEPT !.ic[ip].busy = FALSE, !.ic[ip].valid = FALSE,
                !.ic[ip].ref = @ - 1], 0)

(* iput as one call of a thread that runs alone. *)
iput(s, ip) ==
  IF iput_last(s.ic[ip])
  THEN IF s.ic[ip].busy THEN Ret(Halt(s, "iput busy"), 0)
       ELSE Then(iput_free([s EXCEPT !.ic[ip].busy = TRUE], ip),
              LAMBDA s1, x : iput_end(s1, ip))
  ELSE Ret([s EXCEPT !.ic[ip].ref = @ - 1], 0)

iunlockput(s, ip) == Then(iunlock(s, ip), LAMBDA s1, x : iput(s1, ip))

-----------------------------------------------------------------------------
(* Inode content *)

(* An index-block step that allocates whether or not the entry is set. *)
bmap_entry_always(s, blk, j) ==
  Then(balloc(s), LAMBDA s1, b : Ret([s1 EXCEPT !.dk[blk][j] = b], b))

(* bmap, one level of an index block: entry j of block blk, allocated on   *)
(* first use.                                                              *)
bmap_entry(s, blk, j) ==
  IF s.dk[blk][j] = 0
  THEN Then(balloc(s), LAMBDA s1, b : Ret([s1 EXCEPT !.dk[blk][j] = b], b))
  ELSE Ret(s, s.dk[blk][j])

bmap_direct(s, ip, bn) ==
  IF s.ic[ip].addrs[bn] = 0
  THEN Then(balloc(s), LAMBDA s1, b :
         Ret([s1 EXCEPT !.ic[ip].addrs[bn] = b], b))
  ELSE Ret(s, s.ic[ip].addrs[bn])

bmap_root2(s, ip) ==
  IF s.ic[ip].indirect2 = 0
  THEN Then(balloc(s), LAMBDA s1, b :
         Ret([s1 EXCEPT !.ic[ip].indirect2 = b], b))
  ELSE Ret(s, s.ic[ip].indirect2)

bmap(s, ip, bn) ==
  IF bn < NDIRECT THEN bmap_direct(s, ip, bn)
  ELSE IF bn - NDIRECT < NINDIRECT
  THEN Then(bmap_direct(s, ip, NDIRECT), LAMBDA s1, ind :
         bmap_entry(s1, ind, bn - NDIRECT))
  ELSE IF bn - NDIRECT - NINDIRECT < NINDIRECT * NINDIRECT
  THEN LET b2 == bn - NDIRECT - NINDIRECT
       IN  Then(bmap_root2(s, ip), LAMBDA s1, dind :
           Then(bmap_entry(s1, dind, b2 \div NINDIRECT), LAMBDA s2, ind :
             bmap_entry(s2, ind, b2 % NINDIRECT)))
  ELSE Ret(Halt(s, "bmap: out of range"), 0)


(* ialloc: the first free dinode, in inum order, becomes one of the type. *)
ialloc(s, type) ==
  LET free == {i \in DOMAIN s.di : s.di[i].type = 0}
  IN  IF free = {} THEN Ret(Halt(s, "ialloc: no inodes"), NoSlot)
      ELSE LET inum == Min(free)
           IN  iget([s EXCEPT !.di[inum] = [ZeroDinode EXCEPT !.type = type]],
                    ROOTDEV, inum)

(* uint arithmetic: sums wrap at the width of uint (scaled). *)
UintMod == 64

(* A sum that does not wrap. *)
uadd_nowrap(a, b) == a + b

uadd(a, b) == (a + b) % UintMod

(* The copy loop of readi: n cells from offset off, appended to acc. *)
RECURSIVE readi_loop(_, _, _, _, _)
readi_loop(s, ip, off, n, acc) ==
  IF n = 0 \/ ~Ok(s) THEN [st |-> s, ret |-> Len(acc), data |-> acc]
  ELSE Bind(bmap(s, ip, off \div BSIZE), LAMBDA r :
         LET m == MinOf(n, BSIZE - (off % BSIZE))
         IN  IF ~Ok(r.st) THEN [st |-> r.st, ret |-> 0 - 1, data |-> acc]
             ELSE readi_loop(r.st, ip, off + m, n - m,
                    acc \o [k \in 1 .. m |->
                              r.st.dk[r.ret][(off % BSIZE) + k - 1]]))

(* readi on an inode that is not a device: ret is the count or -1, data    *)
(* the cells copied to dst.                                                *)
readi(s, ip, off, n) ==
  LET e == s.ic[ip]
  IN  IF e.type = T_DEV THEN [st |-> s, ret |-> 0 - 1, data |-> <<>>]
      ELSE IF off > e.size \/ uadd(off, n) < off
      THEN [st |-> s, ret |-> 0 - 1, data |-> <<>>]
      ELSE LET n1 == IF uadd(off, n) > e.size THEN e.size - off ELSE n
           IN  readi_loop(s, ip, off, n1, <<>>)

(* The copy loop of writei: the cells of src to offset off. *)
RECURSIVE writei_loop(_, _, _, _)
writei_loop(s, ip, off, src) ==
  IF src = <<>> \/ ~Ok(s) THEN Ret(s, off)
  ELSE LET r == bmap(s, ip, off \div BSIZE)
           m == MinOf(Len(src), BSIZE - (off % BSIZE))
       IN  IF ~Ok(r.st) THEN r
           ELSE writei_loop(
                  [r.st EXCEPT !.dk[r.ret] =
                     [k \in 0 .. (BSIZE - 1) |->
                        IF k >= (off % BSIZE) /\ k < (off % BSIZE) + m
                        THEN src[k - (off % BSIZE) + 1] ELSE @[k]]],
                  ip, off + m, SubSeq(src, m + 1, Len(src)))

(* writei that never updates the size. *)
writei_nogrow(s, ip, n, end) == Ret(s, 0)

(* The size update that ends writei: end is the offset after the loop. *)
writei_grow(s, ip, n, end) ==
  IF n > 0 /\ end > s.ic[ip].size
  THEN iupdate([s EXCEPT !.ic[ip].size = end], ip)
  ELSE Ret(s, 0)

writei(s, ip, src, off) ==
  LET e == s.ic[ip]
      n == Len(src)
  IN  IF e.type = T_DEV THEN Ret(s, 0 - 1)
      ELSE IF off > e.size \/ uadd(off, n) < off THEN Ret(s, 0 - 1)
      ELSE IF uadd(off, n) > MAXFILE * BSIZE THEN Ret(s, 0 - 1)
      ELSE Then(writei_loop(s, ip, off, src), LAMBDA s1, end :
           Then(writei_grow(s1, ip, n, end), LAMBDA s2, x : Ret(s2, n)))


-----------------------------------------------------------------------------
(* The state as a record, and its installation as the next state. *)

cur == [ic |-> icache, di |-> dinodes, bm |-> bitmap, dk |-> disk,
        halt |-> halted]

Install(s) ==
  /\ icache' = s.ic
  /\ dinodes' = s.di
  /\ bitmap' = s.bm
  /\ disk' = s.dk
  /\ halted' = s.halt

Running == halted = "none"

(* A formatted device: block 0 stands for the boot block, the superblock,  *)
(* the inode region and the bitmap, and is marked in use.                  *)
FreshBitmap == [b \in Blocks |-> b = 0]
FreshDisk == [b \in Blocks |-> ZeroBlock]
FreshCache == [i \in Slots |-> ZeroInode]
NoCall ==
  [op |-> "none", ip |-> NoSlot, inum |-> 0, off |-> 0, n |-> 0, ret |-> 0,
   data |-> <<>>, src |-> <<>>, woff |-> 0, pre |-> ZeroInode, reach |-> {},
   after |-> {}, stale |-> {}, fresh |-> {}, nw |-> 0]

(* The locals of filereadlink.  at: "idle" before a call, "restart" at the *)
(* label restart, "loop" at the head of the for loop, "done" after return. *)
(* rest is the string at origpath_p; result is the string in result[], of  *)
(* length result_off; junk is what follows name[DIRSIZ - 1] in memory up   *)
(* to the next 0 byte, fixed when it is first read; subs counts the        *)
(* substitutions of this call.                                             *)
NoFrame ==
  [fn |-> "none", at |-> "idle", pathname |-> <<>>, bufsiz |-> 0,
   cwd |-> NoSlot, origpath |-> <<>>, rest |-> <<>>, result |-> <<>>,
   loops_left |-> 0, junkread |-> FALSE, junk |-> <<>>, subs |-> 0,
   ret |-> 0, buf |-> <<>>, why |-> "none"]

(* The last call of the password layer: who called what on which path with *)
(* which password, whether and what it returned, and from before the call  *)
(* the password of the file the path leads to, whether that file was open, *)
(* and the exemption table.                                                *)
NoLast ==
  [op |-> "none", pid |-> 0, path |-> <<>>, pw |-> <<>>, done |-> FALSE,
   ret |-> 0, prepw |-> <<>>, preopen |-> FALSE, preui |-> <<>>, n |-> 0]

(* The password layer before its first use. *)
LockUnused ==
  /\ unlocked_inodes = <<>>
  /\ ftable = <<>>
  /\ procs = {}
  /\ nextpid = 0
  /\ last = NoLast

-----------------------------------------------------------------------------
(* Concurrent threads on the inode cache.  One action is one critical      *)
(* section under icache.lock, or the work a thread does between two of     *)
(* them.  pc: "idle" outside ilock and iput without the busy flag,         *)
(* "sleep" inside sleep(ip, &icache.lock), "run" woken and about to test   *)
(* I_BUSY again, "load" with I_BUSY set before the dinode is read,         *)
(* "locked" after ilock returned, "trunc" and "end" inside iput's          *)
(* truncate-and-free section.                                              *)

InitCache ==
  /\ icache = FreshCache
  /\ dinodes = [i \in Inums |->
                  IF i = ROOTINO
                  THEN [ZeroDinode EXCEPT !.type = T_FILE, !.nlink = 1]
                  ELSE ZeroDinode]
  /\ bitmap = FreshBitmap
  /\ disk = FreshDisk
  /\ halted = "none"
  /\ pc = [t \in Threads |-> "idle"]
  /\ hnd = [t \in Threads |-> NoSlot]
  /\ nref = [t \in Threads |-> 0]
  /\ shadow = [i \in Inums |-> <<>>]
  /\ call = NoCall
  /\ LockUnused
  /\ frame = NoFrame

(* A wakeup that reaches nobody. *)
wakeup_none(p, h, ip) == p

(* wakeup(ip): every thread asleep on the slot becomes runnable. *)
wakeup(p, h, ip) ==
  [t \in DOMAIN p |-> IF p[t] = "sleep" /\ h[t] = ip THEN "run" ELSE p[t]]

(* A caller that looked the inode up in a directory: iget of an inum that  *)
(* a directory entry names (the dinode has links).                         *)
CIget(t, inum) ==
  /\ Running /\ pc[t] = "idle" /\ hnd[t] = NoSlot
  /\ dinodes[inum].nlink > 0
  /\ LET r == iget(cur, ROOTDEV, inum)
     IN  /\ Install(r.st)
         /\ hnd' = [hnd EXCEPT ![t] = r.ret]
         /\ nref' = [nref EXCEPT ![t] = IF Ok(r.st) THEN 1 ELSE 0]
  /\ UNCHANGED lockvars
  /\ UNCHANGED <<frame, pc, shadow, call>>

CIalloc(t) ==
  /\ Running /\ pc[t] = "idle" /\ hnd[t] = NoSlot
  /\ LET r == ialloc(cur, T_FILE)
     IN  /\ Install(r.st)
         /\ hnd' = [hnd EXCEPT ![t] = r.ret]
         /\ nref' = [nref EXCEPT ![t] = IF Ok(r.st) THEN 1 ELSE 0]
  /\ UNCHANGED lockvars
  /\ UNCHANGED <<frame, pc, shadow, call>>

CIdup(t) ==
  /\ Running /\ pc[t] \in {"idle", "locked"} /\ hnd[t] # NoSlot
  /\ icache[hnd[t]].ref < MaxRef
  /\ Install(idup(cur, hnd[t]).st)
  /\ nref' = [nref EXCEPT ![t] = @ + 1]
  /\ UNCHANGED lockvars
  /\ UNCHANGED <<frame, pc, hnd, shadow, call>>

(* ilock up to release(&icache.lock): sleep, or take the busy flag. *)
CIlock(t) ==
  /\ Running /\ pc[t] \in {"idle", "run"} /\ hnd[t] # NoSlot
  /\ IF icache[hnd[t]].ref < 1
     THEN /\ Install(Halt(cur, "ilock")) /\ UNCHANGED <<frame, pc>>
     ELSE IF ilock_mustsleep(icache[hnd[t]])
     THEN /\ pc' = [pc EXCEPT ![t] = "sleep"]
          /\ UNCHANGED <<frame, icache, dinodes, bitmap, disk, halted>>
     ELSE /\ Install([cur EXCEPT !.ic[hnd[t]].busy = TRUE])
          /\ pc' = [pc EXCEPT ![t] = "load"]
  /\ UNCHANGED lockvars
  /\ UNCHANGED <<frame, hnd, nref, shadow, call>>

(* ilock after release(&icache.lock): read the dinode if not valid. *)
CIlockLoad(t) ==
  /\ Running /\ pc[t] = "load"
  /\ Install(ilock_load(cur, hnd[t]).st)
  /\ pc' = [pc EXCEPT ![t] = "locked"]
  /\ UNCHANGED lockvars
  /\ UNCHANGED <<frame, hnd, nref, shadow, call>>

CIunlock(t) ==
  /\ Running /\ pc[t] = "locked"
  /\ LET r == iunlock(cur, hnd[t])
     IN  /\ Install(r.st)
         /\ pc' = IF Ok(r.st)
                  THEN [wakeup(pc, hnd, hnd[t]) EXCEPT ![t] = "idle"]
                  ELSE pc
  /\ UNCHANGED lockvars
  /\ UNCHANGED <<frame, hnd, nref, shadow, call>>

(* The holder of the lock changes the link count and writes the inode      *)
(* (what the callers that create, link and unlink do around iupdate).      *)
CLink(t, n) ==
  /\ Running /\ pc[t] = "locked"
  /\ icache[hnd[t]].nlink # n
  /\ Install(iupdate([cur EXCEPT !.ic[hnd[t]].nlink = n], hnd[t]).st)
  /\ UNCHANGED lockvars
  /\ UNCHANGED <<frame, pc, hnd, nref, shadow, call>>

(* iput, first critical section. *)
CIput(t) ==
  /\ Running /\ pc[t] = "idle" /\ hnd[t] # NoSlot
  /\ LET ip == hnd[t]
     IN  IF iput_last(icache[ip])
         THEN IF icache[ip].busy
              THEN /\ Install(Halt(cur, "iput busy"))
                   /\ UNCHANGED <<frame, pc, hnd, nref>>
              ELSE /\ Install([cur EXCEPT !.ic[ip].busy = TRUE])
                   /\ pc' = [pc EXCEPT ![t] = "trunc"]
                   /\ UNCHANGED <<frame, hnd, nref>>
         ELSE /\ Install([cur EXCEPT !.ic[ip].ref = @ - 1])
              /\ nref' = [nref EXCEPT ![t] = @ - 1]
              /\ hnd' = [hnd EXCEPT ![t] = IF nref[t] = 1 THEN NoSlot ELSE @]
              /\ UNCHANGED <<frame, pc>>
  /\ UNCHANGED lockvars
  /\ UNCHANGED <<frame, shadow, call>>

(* iput between its critical sections: itrunc, type = 0, iupdate. *)
CIputFree(t) ==
  /\ Running /\ pc[t] = "trunc"
  /\ Install(iput_free(cur, hnd[t]).st)
  /\ pc' = [pc EXCEPT ![t] = "end"]
  /\ UNCHANGED lockvars
  /\ UNCHANGED <<frame, hnd, nref, shadow, call>>

(* iput, second critical section: flags = 0, wakeup, ref--. *)
CIputEnd(t) ==
  /\ Running /\ pc[t] = "end"
  /\ Install(iput_end(cur, hnd[t]).st)
  /\ pc' = [wakeup(pc, hnd, hnd[t]) EXCEPT ![t] = "idle"]
  /\ nref' = [nref EXCEPT ![t] = @ - 1]
  /\ hnd' = [hnd EXCEPT ![t] = IF nref[t] = 1 THEN NoSlot ELSE @]
  /\ UNCHANGED lockvars
  /\ UNCHANGED <<frame, shadow, call>>

NextCache ==
  \E t \in Threads :
    \/ \E inum \in Inums : CIget(t, inum)
    \/ CIalloc(t)
    \/ CIdup(t)
    \/ CIlock(t)
    \/ CIlockLoad(t)
    \/ CIunlock(t)
    \/ \E n \in {0, 1} : CLink(t, n)
    \/ CIput(t)
    \/ CIputFree(t)
    \/ CIputEnd(t)

SpecCache == InitCache /\ [][NextCache]_vars

(* The threads that hold the busy flag of slot ip. *)
Holders(ip) ==
  {t \in Threads : hnd[t] = ip /\ pc[t] \in {"load", "locked", "trunc", "end"}}


(* The slots that hold identity (dev, inum) with references. *)
Live(dev, inum) ==
  {i \in Slots : icache[i].ref > 0 /\ icache[i].dev = dev
                 /\ icache[i].inum = inum}

SameIdentity(i, j) ==
  icache[i].dev = icache[j].dev /\ icache[i].inum = icache[j].inum

-----------------------------------------------------------------------------
(* C1: two threads never hold the busy flag of one inode: for every cache  *)
(* slot at most one thread is between the return of ilock and iunlock or   *)
(* inside iput's truncate-and-free section, and while one is, I_BUSY is    *)
(* set.                                                                    *)
C1_BusyMutex ==
  \A ip \in Slots :
    /\ Cardinality(Holders(ip)) <= 1
    /\ Holders(ip) # {} => icache[ip].busy

(* One thread holds the lock of a slot while another sleeps in ilock on it. *)
C1_Witness ==
  \E t1, t2 \in Threads :
    /\ t1 # t2 /\ hnd[t1] = hnd[t2] /\ hnd[t1] # NoSlot
    /\ pc[t1] \in {"locked", "end"} /\ pc[t2] = "sleep"

(* C2: for each (device, inode number) at most one cache slot with         *)
(* reference count > 0 holds that identity.                                *)
C2_OneLiveSlot ==
  \A inum \in 0 .. NINODES : Cardinality(Live(ROOTDEV, inum)) <= 1

(* Two threads share one slot (iget found it cached) while another         *)
(* identity was cached and released.                                       *)
C2_Witness ==
  \E i, j \in Slots :
    /\ i # j /\ icache[i].ref >= 2
    /\ icache[j].inum # 0 /\ icache[j].inum # icache[i].inum

(* C3 as stated: no two distinct slots hold the same identity while at     *)
(* least one of them has a nonzero reference count.                        *)
C3_AsStated ==
  \A i, j \in Slots :
    (i # j /\ (icache[i].ref > 0 \/ icache[j].ref > 0)) => ~SameIdentity(i, j)

(* C3 amended: two distinct slots that hold the same identity do not both  *)
(* have a nonzero reference count.                                         *)
C3_Amended ==
  \A i, j \in Slots :
    (i # j /\ SameIdentity(i, j)) => (icache[i].ref = 0 \/ icache[j].ref = 0)

(* A released slot keeps the identity that a slot with references holds. *)
C3_Witness ==
  \E i, j \in Slots :
    /\ i # j /\ SameIdentity(i, j)
    /\ icache[i].ref > 0 /\ icache[j].ref = 0


-----------------------------------------------------------------------------
(* One thread on several inodes: content I/O and release.  One action is   *)
(* one call made the way the file layer makes it (ilock, the routine,      *)
(* iunlock), on a slot the caller holds a reference to.                    *)

(* Region boundaries of the index map, in cells. *)
EndDirect == NDIRECT * BSIZE
EndIndirect == (NDIRECT + NINDIRECT) * BSIZE
EndFile == MAXFILE * BSIZE

(* The blocks an index map reaches: data blocks and index blocks. *)
Entries(s, blk) == {s.dk[blk][j] : j \in 0 .. (NINDIRECT - 1)} \ {0}

ReachOf(s, addrs, indirect2) ==
  LET direct == {addrs[i] : i \in 0 .. (NDIRECT - 1)} \ {0}
      ind == {addrs[NDIRECT]} \ {0}
      dind == {indirect2} \ {0}
      l2 == UNION {Entries(s, b) : b \in dind}
  IN  direct \cup ind \cup UNION {Entries(s, b) : b \in ind}
      \cup dind \cup l2 \cup UNION {Entries(s, b) : b \in l2}

Reach(s, ip) == ReachOf(s, s.ic[ip].addrs, s.ic[ip].indirect2)

(* The file's bytes after src is written at off. *)
Overlay(old, off, src) ==
  LET len == IF off + Len(src) > Len(old) THEN off + Len(src) ELSE Len(old)
  IN  [i \in 1 .. len |->
         IF i > off /\ i <= off + Len(src) THEN src[i - off] ELSE old[i]]

InitBlocks ==
  /\ icache = FreshCache
  /\ dinodes = [i \in Inums |-> ZeroDinode]
  /\ bitmap = FreshBitmap
  /\ disk = FreshDisk
  /\ halted = "none"
  /\ pc = [t \in Threads |-> "idle"]
  /\ hnd = [t \in Threads |-> NoSlot]
  /\ nref = [t \in Threads |-> 0]
  /\ shadow = [i \in Inums |-> <<>>]
  /\ call = NoCall
  /\ LockUnused
  /\ frame = NoFrame

Held(ip) == icache[ip].ref > 0 /\ ~icache[ip].busy

BIalloc ==
  /\ Running
  /\ LET r == ialloc(cur, T_FILE)
     IN  /\ Install(r.st)
         /\ call' = [NoCall EXCEPT !.nw = call.nw]
  /\ UNCHANGED lockvars
  /\ UNCHANGED <<frame, pc, hnd, nref, shadow>>

(* ilock; writei of n cells, each the number of this write; iunlock. *)
BWrite(ip, off, n) ==
  /\ Running /\ Held(ip) /\ call.nw < MaxWrites
  /\ LET l == ilock(cur, ip)
         src == [k \in 1 .. n |-> call.nw + 1]
         w == Then(l, LAMBDA s1, x : writei(s1, ip, src, off))
         r == Then(w, LAMBDA s2, x : iunlock(s2, ip))
         inum == icache[ip].inum
     IN  /\ Ok(l.st) => off <= l.st.ic[ip].size
         /\ Install(r.st)
         /\ shadow' = IF Ok(r.st) /\ w.ret = n
                      THEN [shadow EXCEPT ![inum] = Overlay(@, off, src)]
                      ELSE shadow
         /\ call' = [NoCall EXCEPT
              !.op = "writei", !.ip = ip, !.inum = inum, !.off = off, !.n = n,
              !.ret = w.ret, !.src = src, !.woff = off, !.pre = l.st.ic[ip],
              !.reach = Reach(l.st, ip), !.after = Reach(r.st, ip),
              !.stale = {b \in Reach(r.st, ip) \ Reach(l.st, ip) : bitmap[b]},
              !.fresh = {b \in Blocks : r.st.bm[b] /\ ~bitmap[b]},
              !.nw = call.nw + 1]
  /\ UNCHANGED lockvars
  /\ UNCHANGED <<frame, pc, hnd, nref>>

(* ilock; readi; iunlock, by the caller whose writei has just returned its *)
(* count: it reads back the range it wrote, or the whole file.             *)
BRead(ip, off, n) ==
  /\ Running /\ Held(ip)
  /\ call.op = "writei" /\ call.ip = ip /\ call.ret = call.n
  /\ LET l == ilock(cur, ip)
         rd == IF Ok(l.st) THEN readi(l.st, ip, off, n)
               ELSE [st |-> l.st, ret |-> 0 - 1, data |-> <<>>]
         r == Then(Ret(rd.st, rd.ret), LAMBDA s2, x : iunlock(s2, ip))
     IN  /\ Install(r.st)
         /\ call' = [NoCall EXCEPT
              !.op = "readi", !.ip = ip, !.inum = icache[ip].inum,
              !.off = off, !.n = n, !.ret = rd.ret, !.data = rd.data,
              !.src = call.src, !.woff = call.woff,
              !.pre = l.st.ic[ip], !.reach = Reach(l.st, ip),
              !.after = Reach(r.st, ip),
              !.fresh = {b \in Blocks : r.st.bm[b] /\ ~bitmap[b]},
              !.nw = call.nw]
  /\ UNCHANGED lockvars
  /\ UNCHANGED <<frame, pc, hnd, nref, shadow>>

BIput(ip) ==
  /\ Running /\ Held(ip)
  /\ LET r == iput(cur, ip)
     IN  /\ Install(r.st)
         /\ shadow' = IF iput_last(icache[ip])
                      THEN [shadow EXCEPT ![icache[ip].inum] = <<>>]
                      ELSE shadow
         /\ call' = [NoCall EXCEPT !.nw = call.nw]
  /\ UNCHANGED lockvars
  /\ UNCHANGED <<frame, pc, hnd, nref>>

(* Offsets at and around the region boundaries, and the end of the file. *)
IoOffs == {0, EndDirect - 1, EndIndirect - 1}
IoLens == {1, EndIndirect + 1}

NextBlocks ==
  \/ BIalloc
  \/ \E ip \in Slots :
       \/ \E off \in IoOffs \cup {icache[ip].size}, n \in IoLens :
            BWrite(ip, off, n)
       \/ BRead(ip, call.off, call.n)
       \/ BRead(ip, 0, EndFile)
       \/ BIput(ip)

SpecBlocks == InitBlocks /\ [][NextBlocks]_vars

(* Index-map positions: entry i of a valid cached inode ("i"), of an       *)
(* on-disk inode that is not cached valid ("d"), entry j of an index       *)
(* block ("b").  Position NDIRECT + 1 of an inode is indirect2.            *)
MapOf(addrs, indirect2, i) == IF i <= NDIRECT THEN addrs[i] ELSE indirect2

Cached(inum) ==
  {ip \in Slots : icache[ip].ref > 0 /\ icache[ip].valid
                  /\ icache[ip].dev = ROOTDEV /\ icache[ip].inum = inum}

InodePositions ==
  {<<"i", ip, i>> : ip \in {q \in Slots : icache[q].ref > 0 /\ icache[q].valid},
                    i \in 0 .. (NDIRECT + 1)}
  \cup {<<"d", inum, i>> : inum \in {q \in Inums : Cached(q) = {}},
                           i \in 0 .. (NDIRECT + 1)}

PositionValue(p) ==
  IF p[1] = "i" THEN MapOf(icache[p[2]].addrs, icache[p[2]].indirect2, p[3])
  ELSE IF p[1] = "d"
  THEN MapOf(dinodes[p[2]].addrs, dinodes[p[2]].indirect2, p[3])
  ELSE disk[p[2]][p[3]]

(* Blocks used as index blocks: single-indirect, double-indirect roots,    *)
(* and the single-indirect blocks the roots list.                          *)
IndexBlocks ==
  LET roots == {PositionValue(p) :
                  p \in {q \in InodePositions : q[3] = NDIRECT + 1}} \ {0}
      inds == {PositionValue(p) :
                  p \in {q \in InodePositions : q[3] = NDIRECT}} \ {0}
  IN  inds \cup roots \cup UNION {Entries(cur, b) : b \in roots}

Positions ==
  InodePositions
  \cup {<<"b", blk, j>> : blk \in IndexBlocks, j \in 0 .. (NINDIRECT - 1)}

Owners(b) == {p \in Positions : PositionValue(p) = b}

(* C5: no block number is in two index-map positions, every block in an    *)
(* index map has its bitmap bit set, and no call was handed a block whose  *)
(* bit was set before it.                                                  *)
C5_NoDoubleOwner ==
  Running =>
    /\ \A b \in Blocks \ {0} :
         /\ Cardinality(Owners(b)) <= 1
         /\ Owners(b) # {} => bitmap[b]
    /\ call.stale = {}

(* A second file is written after the first file was written and           *)
(* truncated: block 1, which the first write of a behaviour is handed, is  *)
(* handed out anew.                                                        *)
C5_Witness ==
  /\ Running /\ call.op = "writei" /\ call.nw >= 2
  /\ 1 \in call.fresh /\ Owners(1) # {}

(* C6: on a locked inode, for every block index below MAXFILE, a bmap that *)
(* returns gives a non-zero block number, and a second bmap of the same    *)
(* index returns the same number and changes nothing; a writei inside the  *)
(* mapped range and a readi allocate nothing.                              *)
C6_BmapIdempotent ==
  Running =>
    /\ \A ip \in Slots : Held(ip) =>
         LET l == ilock(cur, ip)
         IN  Ok(l.st) =>
               \A bn \in 0 .. (MAXFILE - 1) :
                 LET r1 == bmap(l.st, ip, bn)
                     r2 == bmap(r1.st, ip, bn)
                 IN  Ok(r1.st) =>
                       /\ r1.ret # 0
                       /\ r2.ret = r1.ret
                       /\ r2.st = r1.st
    /\ (call.op = "writei" /\ call.ret = call.n
          /\ call.off + call.n <= call.pre.size)
         => (call.fresh = {} /\ call.after = call.reach)
    /\ call.op = "readi" => (call.fresh = {} /\ call.after = call.reach)

(* A writei over a mapped range that ends in the double-indirect region:   *)
(* bmap ran again for indices it had mapped, and allocated nothing.        *)
C6_Witness ==
  /\ Running /\ call.op = "writei" /\ call.ret = call.n
  /\ call.off + call.n <= call.pre.size
  /\ call.off + call.n > EndIndirect
  /\ call.pre.indirect2 # 0

(* C7: a readi of the range a writei has just written returns its length   *)
(* and the bytes written; a readi returns what was written to the range it *)
(* covers, by this writei and by the earlier ones; a writei at an offset   *)
(* within the size that ends within MAXFILE * BSIZE returns its length.    *)
C7_RoundTrip ==
  Running =>
    /\ (call.op = "readi" /\ call.off = call.woff /\ call.n = Len(call.src))
         => (call.ret = call.n /\ call.data = call.src)
    /\ call.op = "readi" =>
         /\ call.ret = MinOf(call.n, Len(shadow[call.inum]) - call.off)
         /\ call.data = SubSeq(shadow[call.inum], call.off + 1,
                               call.off + call.ret)
    /\ (call.op = "writei" /\ call.off + call.n <= EndFile)
         => call.ret = call.n
    /\ \A ip \in Slots : (icache[ip].ref > 0 /\ icache[ip].valid) =>
         icache[ip].size = Len(shadow[icache[ip].inum])

(* A read-back of a range that starts in the single-indirect region and    *)
(* ends in the double-indirect region, in a file whose first write left    *)
(* bytes outside that range.                                               *)
C7_Witness ==
  /\ Running /\ call.op = "readi" /\ call.n = Len(call.src)
  /\ call.off = call.woff /\ call.off >= EndDirect /\ call.off < EndIndirect
  /\ call.off + call.n > EndIndirect
  /\ \E k \in 1 .. Len(shadow[call.inum]) : shadow[call.inum][k] # call.src[1]

-----------------------------------------------------------------------------
(* Release.  A file is created and written, perhaps fetched again,        *)
(* unlinked, or referenced more than once; from the first iput on its      *)
(* entry, the only operation on the entry is iput.                         *)

InitRelease ==
  /\ icache = FreshCache
  /\ dinodes = [i \in Inums |-> ZeroDinode]
  /\ bitmap = FreshBitmap
  /\ disk = FreshDisk
  /\ halted = "none"
  /\ pc = [t \in Threads |-> "idle"]
  /\ hnd = [t \in Threads |-> NoSlot]
  /\ nref = [t \in Threads |-> 0]
  /\ shadow = [i \in Inums |-> <<>>]
  /\ call = NoCall
  /\ LockUnused
  /\ frame = NoFrame

(* ilock; writei of n cells at offset 0; nlink = link; iupdate; iunlock. *)
rel_fill(s, ip, n, link) ==
  Then(ilock(s, ip), LAMBDA s1, x :
  Then(writei(s1, ip, [j \in 1 .. n |-> 1], 0), LAMBDA s2, y :
  Then(iupdate([s2 EXCEPT !.ic[ip].nlink = link], ip), LAMBDA s3, z :
    iunlock(s3, ip))))

RelSizes == {0, 1, EndIndirect + 1, EndFile}

(* The file is created: ialloc, then its content and link count. *)
RCreate(n, link) ==
  /\ Running /\ call.op = "none"
  /\ LET a == ialloc(cur, T_FILE)
         r == rel_fill(a.st, a.ret, n, link)
     IN  /\ Install(r.st)
         /\ call' = [NoCall EXCEPT !.op = "setup", !.ip = a.ret,
                                   !.inum = a.st.ic[a.ret].inum]
  /\ UNCHANGED lockvars
  /\ UNCHANGED <<frame, pc, hnd, nref, shadow>>

(* A second file of one block is created and stays in use. *)
ROther ==
  /\ Running /\ call.op = "setup" /\ call.nw = 0
  /\ LET a == ialloc(cur, T_FILE)
         r == rel_fill(a.st, a.ret, 1, 1)
     IN  /\ Install(r.st)
         /\ call' = [call EXCEPT !.nw = 1]
  /\ UNCHANGED lockvars
  /\ UNCHANGED <<frame, pc, hnd, nref, shadow>>

(* The only reference to the linked file is dropped and the inode is       *)
(* fetched again: the entry is not valid until the next ilock.             *)
RReload ==
  /\ Running /\ call.op = "setup"
  /\ icache[call.ip].ref = 1 /\ dinodes[call.inum].nlink > 0
  /\ LET r == Then(iput(cur, call.ip), LAMBDA s1, x :
                iget(s1, ROOTDEV, call.inum))
     IN  /\ Install(r.st)
         /\ call' = [call EXCEPT !.ip = r.ret]
  /\ UNCHANGED lockvars
  /\ UNCHANGED <<frame, pc, hnd, nref, shadow>>

(* ilock; nlink = 0; iupdate; iunlock. *)
RUnlink ==
  /\ Running /\ call.op = "setup"
  /\ dinodes[call.inum].nlink > 0
  /\ Install(rel_fill(cur, call.ip, 0, 0).st)
  /\ UNCHANGED lockvars
  /\ UNCHANGED <<frame, pc, hnd, nref, shadow, call>>

RIdup ==
  /\ Running /\ call.op = "setup"
  /\ icache[call.ip].ref < MaxRef
  /\ Install(idup(cur, call.ip).st)
  /\ UNCHANGED lockvars
  /\ UNCHANGED <<frame, pc, hnd, nref, shadow, call>>

(* iput on the entry.  The first one records the entry, the blocks its map *)
(* reaches and the bitmap; call.n counts the iputs.                        *)
RIput ==
  /\ Running /\ call.op \in {"setup", "iput"}
  /\ call.op = "iput" => call.n < call.pre.ref
  /\ LET r == iput(cur, call.ip)
     IN  /\ Install(r.st)
         /\ call' = IF call.op = "setup"
                    THEN [call EXCEPT !.op = "iput", !.n = 1,
                            !.pre = icache[call.ip],
                            !.reach = Reach(cur, call.ip),
                            !.fresh = {b \in Blocks : bitmap[b]}]
                    ELSE [call EXCEPT !.n = @ + 1]
  /\ UNCHANGED lockvars
  /\ UNCHANGED <<frame, pc, hnd, nref, shadow>>

(* iget of another identity once the entry is released. *)
RIget(inum) ==
  /\ Running /\ call.op = "iput" /\ call.n = call.pre.ref
  /\ inum # call.inum
  /\ \A i \in Slots : ~iget_hit(icache[i], ROOTDEV, inum)
  /\ LET r == iget(cur, ROOTDEV, inum)
     IN  /\ Install(r.st)
         /\ call' = [call EXCEPT !.op = "iget", !.ret = r.ret]
  /\ UNCHANGED lockvars
  /\ UNCHANGED <<frame, pc, hnd, nref, shadow>>

NextRelease ==
  \/ \E n \in RelSizes, link \in {0, 1} : RCreate(n, link)
  \/ ROther
  \/ RReload
  \/ RUnlink
  \/ RIdup
  \/ RIput
  \/ \E inum \in 1 .. NINODES : RIget(inum)

SpecRelease == InitRelease /\ [][NextRelease]_vars

ZeroMap(e) ==
  /\ \A i \in 0 .. NDIRECT : e.addrs[i] = 0
  /\ e.indirect2 = 0
  /\ e.size = 0

(* C4: after as many iputs as the entry had references, its reference      *)
(* count is 0 and iget takes it for empty; if it was valid with no links,  *)
(* every block its index map reached is free in the bitmap, its index      *)
(* entries and size are 0 and its on-disk type is 0; the bits of the other *)
(* blocks are as they were; an iget of another identity then takes the    *)
(* entry, or an empty one before it.                                       *)
C4_Released ==
  /\ Running
  /\ (call.op = "iput" /\ call.n = call.pre.ref) =>
       /\ icache[call.ip].ref = 0
       /\ iget_empty(icache[call.ip])
       /\ ~icache[call.ip].busy
       /\ (call.pre.valid /\ call.pre.nlink = 0) =>
            /\ \A b \in call.reach : ~bitmap[b]
            /\ \A b \in call.fresh \ call.reach : bitmap[b]
            /\ ZeroMap(icache[call.ip])
            /\ ZeroMap(dinodes[call.inum])
            /\ dinodes[call.inum].type = 0
  /\ call.op = "iget" =>
       /\ call.ret # NoSlot /\ call.ret <= call.ip
       /\ icache[call.ret].ref = 1 /\ ~icache[call.ret].valid
       /\ icache[call.ret].inum # call.inum

(* The last of several references to a valid entry without links is        *)
(* dropped; its map reached blocks through the double-indirect block, and  *)
(* a second file holds a block.                                            *)
C4_Witness ==
  /\ Running /\ call.op = "iput" /\ call.n = call.pre.ref
  /\ call.pre.ref >= 2 /\ call.pre.valid /\ call.pre.nlink = 0
  /\ call.pre.indirect2 # 0 /\ Cardinality(call.reach) >= MAXFILE
  /\ call.fresh \ call.reach # {0}

-----------------------------------------------------------------------------
(* Directories and path names.  A string is the sequence of its characters *)
(* before the terminating 0, each a one-character string.  A directory     *)
(* entry is the cell [name, inum], its name the characters before the      *)
(* padding.  fs.h and param.h are not among the source files: DIRSIZ and   *)
(* MAXPATH are scaled.                                                     *)

DIRSIZ == 3
MAXPATH == 32

(* safestrcpy(dst, src, n): the string dst holds afterwards. *)
safestrcpy(src, n) == SubSeq(src, 1, MinOf(Len(src), n - 1))

(* strncpy(dst, src, n), for a source shorter than n. *)
strncpy(src, n) == SubSeq(src, 1, MinOf(Len(src), n))

(* A comparison that finds every pair of names equal. *)
namecmp_any(s, t) == TRUE

(* namecmp(s, t) == 0 *)
namecmp(s, t) == strncpy(s, DIRSIZ) = strncpy(t, DIRSIZ)

RECURSIVE skipslash(_)
skipslash(path) ==
  IF path # <<>> /\ Head(path) = "/" THEN skipslash(Tail(path)) ELSE path

RECURSIVE elemlen(_)
elemlen(path) ==
  IF path = <<>> \/ Head(path) = "/" THEN 0 ELSE 1 + elemlen(Tail(path))

(* skipelem: ok is FALSE for the return value 0; path is the string        *)
(* returned; name holds the min(len, DIRSIZ) characters copied, and is     *)
(* terminated only when len < DIRSIZ.                                      *)
skipelem(path) ==
  LET s == skipslash(path)
      len == elemlen(s)
  IN  IF s = <<>>
      THEN [ok |-> FALSE, path |-> <<>>, name |-> <<>>, len |-> 0]
      ELSE [ok |-> TRUE, path |-> skipslash(SubSeq(s, len + 1, Len(s))),
            name |-> SubSeq(s, 1, MinOf(len, DIRSIZ)), len |-> len]

(* dirlookup: the entry is one cell, sizeof(de) is 1. *)
RECURSIVE dirlookup_loop(_, _, _, _)
dirlookup_loop(s, dp, name, off) ==
  IF off >= s.ic[dp].size THEN Ret(s, NoSlot)
  ELSE Bind(readi(s, dp, off, 1), LAMBDA r :
         IF ~Ok(r.st) THEN Ret(r.st, NoSlot)
         ELSE IF r.ret # 1 THEN Ret(Halt(r.st, "dirlink read"), NoSlot)
         ELSE IF r.data[1].inum # 0 /\ namecmp(name, r.data[1].name)
         THEN iget(r.st, r.st.ic[dp].dev, r.data[1].inum)
         ELSE dirlookup_loop(r.st, dp, name, off + 1))

dirlookup(s, dp, name) ==
  IF s.ic[dp].type # T_DIR THEN Ret(Halt(s, "dirlookup not DIR"), NoSlot)
  ELSE dirlookup_loop(s, dp, name, 0)

(* namex, the while loop; NoSlot is the null pointer. *)
RECURSIVE namex_loop(_, _, _, _)
namex_loop(s, ip, path, nameiparent) ==
  LET sk == skipelem(path)
  IN  IF ~sk.ok
      THEN IF nameiparent
           THEN Then(iput(s, ip), LAMBDA s1, x : Ret(s1, NoSlot))
           ELSE Ret(s, ip)
      ELSE Then(ilock(s, ip), LAMBDA s1, x :
             IF s1.ic[ip].type # T_DIR
             THEN Then(iunlockput(s1, ip), LAMBDA s2, y : Ret(s2, NoSlot))
             ELSE IF nameiparent /\ sk.path = <<>>
             THEN Then(iunlock(s1, ip), LAMBDA s2, y : Ret(s2, ip))
             ELSE Then(dirlookup(s1, ip, sk.name), LAMBDA s2, next :
                  Then(iunlockput(s2, ip), LAMBDA s3, y :
                    IF next = NoSlot THEN Ret(s3, NoSlot)
                    ELSE namex_loop(s3, next, sk.path, nameiparent))))

(* cwd is the slot of proc->cwd. *)
namex(s, path, nameiparent, cwd) ==
  Then(IF path # <<>> /\ Head(path) = "/"
       THEN iget(s, ROOTDEV, ROOTINO) ELSE idup(s, cwd),
       LAMBDA s1, ip : namex_loop(s1, ip, path, nameiparent))

namei(s, path, cwd) == namex(s, path, FALSE, cwd)

-----------------------------------------------------------------------------
(* filereadlink and filereadlinki, one pass of the for loop at a time.     *)
(* Each operator maps a file-system state and a frame to [st, f].          *)

frl_return(f, ret, buf, why) ==
  [f EXCEPT !.at = "done", !.ret = ret, !.buf = buf, !.why = why]

(* The entry of both functions, to the label restart. *)
frl_enter(fn, pathname, bufsiz, cwd) ==
  LET f == [NoFrame EXCEPT !.fn = fn, !.pathname = pathname,
                           !.bufsiz = bufsiz, !.cwd = cwd,
                           !.loops_left = MAX_SYMLINK_LOOPS]
  IN  IF pathname = <<>> THEN frl_return(f, 0 - 1, <<>>, "empty")
      ELSE IF pathname = <<"/">> THEN frl_return(f, 2, <<"/">>, "root")
      ELSE [f EXCEPT !.at = "restart",
                     !.origpath = strncpy(pathname, MAXPATH)]

(* From the label restart to the head of the for loop. *)
frl_restart(f) ==
  [f EXCEPT !.at = "loop", !.rest = f.origpath,
            !.result = IF f.origpath # <<>> /\ Head(f.origpath) = "/"
                       THEN <<"/">> ELSE <<>>]

(* The budget test after loops_left--. *)
frl_spent(loops_left) == loops_left = 0

(* origpath is rewritten; loops_left--; return -1 or goto restart. *)
frl_subst(f, origpath) ==
  LET f1 == [f EXCEPT !.origpath = safestrcpy(origpath, MAXPATH),
                      !.loops_left = @ - 1, !.subs = @ + 1]
  IN  IF frl_spent(f1.loops_left)
      THEN frl_return(f1, 0 - 1, <<>>, "loops")
      ELSE [f1 EXCEPT !.at = "restart"]

(* name as a string: the characters skipelem copied and, when it did not   *)
(* terminate them, the bytes that follow in memory.                        *)
frl_name(f, sk) == IF sk.len >= DIRSIZ THEN sk.name \o f.junk ELSE sk.name

(* The last-element branch of filereadlinki. *)
frli_last(s, f, nm) ==
  LET result == f.result \o safestrcpy(nm, MAXPATH)
  IN  [st |-> s,
       f |-> IF f.bufsiz < Len(result) + 1
             THEN frl_return(f, 0 - 1, <<>>, "bufsiz")
             ELSE frl_return(f, Len(result), safestrcpy(result, MAXPATH),
                             "ok")]

(* filereadlink that takes the last element as it is given. *)
frl_last_asgiven(s, f, nm) == frli_last(s, f, nm)

(* The last-element branch of filereadlink, after namei and ilock. *)
frl_last_ip(s, f, result, ip) ==
  LET type == s.ic[ip].type
  IN  IF type \in {T_FILE, T_DEV, T_DIR}
      THEN [st |-> iunlock(s, ip).st,
            f |-> IF f.bufsiz < Len(result) + 1
                  THEN frl_return(f, 0 - 1, <<>>, "bufsiz")
                  ELSE frl_return(f, Len(result),
                                  safestrcpy(result, MAXPATH), "ok")]
      ELSE IF type = T_SYMLINK
      THEN Bind(readi(s, ip, 0, MAXPATH), LAMBDA rd :
             [st |-> iunlock(rd.st, ip).st,
              f |-> IF rd.data = <<>> \/ Head(rd.data) # "/"
                    THEN frl_subst(f,
                           f.result \o safestrcpy(rd.data, MAXPATH))
                    ELSE frl_subst(f, rd.data)])
      ELSE [st |-> Halt(s, "filereadlink: unknown inode type"), f |-> f]

frl_last(s, f, nm) ==
  Bind(namei(s, f.result \o safestrcpy(nm, MAXPATH), f.cwd), LAMBDA n :
    IF ~Ok(n.st) THEN [st |-> n.st, f |-> f]
    ELSE IF n.ret = NoSlot
    THEN [st |-> n.st, f |-> frl_return(f, 0 - 1, <<>>, "namei")]
    ELSE Bind(ilock(n.st, n.ret), LAMBDA l :
           IF ~Ok(l.st) THEN [st |-> l.st, f |-> f]
           ELSE frl_last_ip(l.st, f, f.result \o safestrcpy(nm, MAXPATH),
                            n.ret)))

(* The branch for an element that is not the last, after namei and ilock:  *)
(* rest is the string at origpath_p.                                       *)
frl_mid_ip(s, f, result, rest, ip) ==
  LET type == s.ic[ip].type
  IN  IF type \in {T_FILE, T_DEV}
      THEN [st |-> s, f |-> frl_return(f, 0 - 1, <<>>, "notdir")]
      ELSE IF type = T_DIR
      THEN [st |-> iunlock(s, ip).st,
            f |-> [f EXCEPT !.result = result \o <<"/">>, !.rest = rest]]
      ELSE IF type = T_SYMLINK
      THEN Bind(readi(s, ip, 0, MAXPATH), LAMBDA rd :
             LET new == rd.data \o <<"/">> \o safestrcpy(rest, MAXPATH)
             IN  [st |-> iunlock(rd.st, ip).st,
                  f |-> IF Head(new) = "/"
                        THEN frl_subst(f, new)
                        ELSE frl_subst(f, f.result \o new)])
      ELSE [st |-> Halt(s, "filereadlink: unknown inode type"), f |-> f]

frl_mid(s, f, nm, rest) ==
  Bind(namei(s, f.result \o safestrcpy(nm, MAXPATH), f.cwd), LAMBDA n :
    IF ~Ok(n.st) THEN [st |-> n.st, f |-> f]
    ELSE IF n.ret = NoSlot
    THEN [st |-> n.st, f |-> frl_return(f, 0 - 1, <<>>, "namei")]
    ELSE Bind(ilock(n.st, n.ret), LAMBDA l :
           IF ~Ok(l.st) THEN [st |-> l.st, f |-> f]
           ELSE frl_mid_ip(l.st, f, f.result \o safestrcpy(nm, MAXPATH),
                           rest, n.ret)))

(* One pass of the for loop.  g is what the read of name[DIRSIZ] and the   *)
(* bytes after it yields when this pass is the first to read them.         *)
frl_step(s, f, g) ==
  LET sk == skipelem(f.rest)
      f1 == IF sk.ok /\ sk.len >= DIRSIZ /\ ~f.junkread
            THEN [f EXCEPT !.junkread = TRUE, !.junk = g] ELSE f
      nm == frl_name(f1, sk)
  IN  IF ~sk.ok THEN [st |-> s, f |-> frl_return(f, 0 - 1, <<>>, "skipelem")]
      ELSE IF sk.path = <<>>
      THEN IF f.fn = "filereadlink" THEN frl_last(s, f1, nm)
           ELSE frli_last(s, f1, nm)
      ELSE frl_mid(s, f1, nm, sk.path)

-----------------------------------------------------------------------------
(* A file-system image: a tree of directories, files and symlinks, laid    *)
(* out on a disk of its own size.  p and q hold a chain of ChainLen        *)
(* symlinks, each to the next (by a relative target inside a directory,    *)
(* by an absolute one from p to q), the last one to the directory /d.      *)

ChainLen == 17     \* symlinks in the chain

LinkNames ==
  <<"A", "B", "C", "D", "E", "F", "G", "H", "I", "J", "K", "L",
    "M", "N", "O", "P", "Q", "R", "S", "T", "U", "V", "W", "X">>

(* Entries a directory has room for besides "." and "..". *)
PerDir == MAXFILE * BSIZE - 2

Dot == <<".">>
DotDot == <<".", ".">>
Dirent(name, inum) == [name |-> name, inum |-> inum]

DInum == 2
PInum == 10
QInum == 11
LinkInum(j) == 12 + j
ImageInums == 1 .. LinkInum(ChainLen)

ChainDir(j) == IF j <= PerDir THEN "p" ELSE "q"
ChainTarget(j) ==
  IF j = ChainLen THEN <<"/", "d">>
  ELSE IF ChainDir(j + 1) = ChainDir(j) THEN <<LinkNames[j + 1]>>
  ELSE <<"/", ChainDir(j + 1), "/", LinkNames[j + 1]>>

ChainEntries(dir) ==
  LET js == SelectSeq([j \in 1 .. ChainLen |-> j],
                      LAMBDA j : ChainDir(j) = dir)
  IN  [k \in 1 .. Len(js) |-> Dirent(<<LinkNames[js[k]]>>, LinkInum(js[k]))]

File(type, cells) == [type |-> type, cells |-> cells]

(* inum -> type and content. *)
Files ==
  [i \in ImageInums |->
     IF i = ROOTINO THEN File(T_DIR,
       <<Dirent(Dot, ROOTINO), Dirent(DotDot, ROOTINO), Dirent(<<"d">>, DInum),
         Dirent(<<"f">>, 3), Dirent(<<"a">>, 5), Dirent(<<"b">>, 6),
         Dirent(<<"x">>, 7), Dirent(<<"y">>, 8),
         Dirent(<<"l", "m", "n">>, 9), Dirent(<<"p">>, PInum),
         Dirent(<<"q">>, QInum)>>)
     ELSE IF i = DInum THEN File(T_DIR,
       <<Dirent(Dot, DInum), Dirent(DotDot, ROOTINO), Dirent(<<"g">>, 4),
         Dirent(<<"r">>, 12)>>)
     ELSE IF i = 3 THEN File(T_FILE, <<"h", "i">>)
     ELSE IF i = 4 THEN File(T_FILE, <<"h", "e", "l", "l", "o">>)
     ELSE IF i = 5 THEN File(T_SYMLINK, <<"/", "d", "/", "g">>)
     ELSE IF i = 6 THEN File(T_SYMLINK, <<"d">>)
     ELSE IF i = 7 THEN File(T_SYMLINK, <<"y">>)
     ELSE IF i = 8 THEN File(T_SYMLINK, <<"/", "x">>)
     ELSE IF i = 9 THEN File(T_FILE, <<"j">>)
     ELSE IF i = PInum THEN File(T_DIR,
       <<Dirent(Dot, PInum), Dirent(DotDot, ROOTINO)>> \o ChainEntries("p"))
     ELSE IF i = QInum THEN File(T_DIR,
       <<Dirent(Dot, QInum), Dirent(DotDot, ROOTINO)>> \o ChainEntries("q"))
     ELSE IF i = 12 THEN File(T_SYMLINK, <<"g">>)
     ELSE File(T_SYMLINK, ChainTarget(i - 12))]

(* The blocks of inode i are in a region of their own: data block n at     *)
(* DataBlk(i, n), then the single-indirect block, the double-indirect      *)
(* block and the blocks it lists.                                          *)
Region == MAXFILE + 2 + NINDIRECT
Base(i) == 1 + (i - 1) * Region
DataBlk(i, n) == Base(i) + n
IndBlk(i) == Base(i) + MAXFILE
Ind2Blk(i) == Base(i) + MAXFILE + 1
Level2Blk(i, j) == Base(i) + MAXFILE + 2 + j
NBlocks(i) == (Len(Files[i].cells) + BSIZE - 1) \div BSIZE

ImageBlocks == 0 .. (Region * Len(Files))

ImageDinode(i) ==
  [type |-> Files[i].type, nlink |-> 1, size |-> Len(Files[i].cells),
   addrs |-> [a \in 0 .. NDIRECT |->
                IF a < NDIRECT
                THEN IF a < NBlocks(i) THEN DataBlk(i, a) ELSE 0
                ELSE IF NBlocks(i) > NDIRECT THEN IndBlk(i) ELSE 0],
   indirect2 |-> IF NBlocks(i) > NDIRECT + NINDIRECT THEN Ind2Blk(i) ELSE 0,
   password |-> <<>>]

(* Block b of the image: k is its place in the region of inode i. *)
ImageBlock(b) ==
  LET i == ((b - 1) \div Region) + 1
      k == (b - 1) % Region
      nb == NBlocks(i)
      cells == Files[i].cells
      first2 == NDIRECT + NINDIRECT
  IN  IF b = 0 THEN ZeroBlock
      ELSE IF k < MAXFILE
      THEN [c \in 0 .. (BSIZE - 1) |->
              IF k * BSIZE + c < Len(cells) THEN cells[k * BSIZE + c + 1]
              ELSE 0]
      ELSE IF k = MAXFILE
      THEN [c \in 0 .. (BSIZE - 1) |->
              IF c < NINDIRECT /\ NDIRECT + c < nb
              THEN DataBlk(i, NDIRECT + c) ELSE 0]
      ELSE IF k = MAXFILE + 1
      THEN [c \in 0 .. (BSIZE - 1) |->
              IF c < NINDIRECT /\ first2 + c * NINDIRECT < nb
              THEN Level2Blk(i, c) ELSE 0]
      ELSE [c \in 0 .. (BSIZE - 1) |->
              IF c < NINDIRECT
                 /\ first2 + (k - MAXFILE - 2) * NINDIRECT + c < nb
              THEN DataBlk(i, first2 + (k - MAXFILE - 2) * NINDIRECT + c)
              ELSE 0]

ImageUsed(b) ==
  LET i == ((b - 1) \div Region) + 1
      k == (b - 1) % Region
      nb == NBlocks(i)
      first2 == NDIRECT + NINDIRECT
  IN  \/ b = 0
      \/ k < MAXFILE /\ k < nb
      \/ k = MAXFILE /\ nb > NDIRECT
      \/ k = MAXFILE + 1 /\ nb > first2
      \/ k > MAXFILE + 1 /\ nb > first2 + (k - MAXFILE - 2) * NINDIRECT

ImageState ==
  [ic |-> FreshCache,
   di |-> [i \in ImageInums |-> ImageDinode(i)],
   bm |-> [b \in ImageBlocks |-> ImageUsed(b)],
   dk |-> [b \in ImageBlocks |-> ImageBlock(b)],
   halt |-> "none"]

(* The process took its current directory with iget. *)
InitPath ==
  /\ \E cwd \in {ROOTINO, DInum} :
       LET r == iget(ImageState, ROOTDEV, cwd)
       IN  /\ icache = r.st.ic
           /\ dinodes = r.st.di
           /\ bitmap = r.st.bm
           /\ disk = r.st.dk
           /\ halted = r.st.halt
           /\ frame = [NoFrame EXCEPT !.cwd = r.ret]
  /\ pc = [t \in Threads |-> "idle"]
  /\ hnd = [t \in Threads |-> NoSlot]
  /\ nref = [t \in Threads |-> 0]
  /\ shadow = [i \in Inums |-> <<>>]
  /\ call = NoCall
  /\ LockUnused

ChainPath(j) == <<"/", ChainDir(j), "/", LinkNames[j]>>
ChainThrough(j) == ChainPath(j) \o <<"/", "g">>

PathInputs ==
  {ChainPath(j) : j \in 1 .. ChainLen}
  \cup {ChainThrough(j) : j \in 1 .. ChainLen}
  \cup {<<>>, <<"/">>, <<"/", "f">>, <<"f">>, <<"/", "d", "/", "g">>,
        <<"d", "/", "g">>, <<"/", "a">>, <<"a">>, <<"b", "/", "g">>,
        <<"/", "b", "/", "r">>, <<"r">>, <<"/", "x">>,
        <<"/", "x", "/", "g">>, <<"/", "l", "m", "n">>,
        <<"/", "l", "m", "n", "o">>, <<"/", "f", "/", "g">>, <<"/", "n">>,
        <<"/", "d", "/">>, <<"/", "/", "d", "/", "/", "g">>,
        <<"/", "d", "/", ".", ".", "/", "f">>}

(* What a read of the uninitialized name[DIRSIZ] can find: a 0 byte, or    *)
(* another byte and then a 0 byte.                                         *)
Junks == {<<>>, <<"?">>}

Functions == {"filereadlink", "filereadlinki"}

(* A call starts.  The first call of a behaviour is on one of the paths;   *)
(* the second is on the string the first one returned, with the same       *)
(* function.                                                               *)
PStart(fn, pathname) ==
  /\ Running /\ frame.at \in {"idle", "done"}
  /\ IF frame.at = "idle"
     THEN call.nw = 0 /\ call' = call
     ELSE /\ call.nw = 0 /\ frame.ret >= 0
          /\ fn = frame.fn /\ pathname = frame.buf
          /\ call' = [NoCall EXCEPT !.op = frame.fn, !.data = frame.pathname,
                                    !.src = frame.buf, !.ret = frame.ret,
                                    !.nw = 1]
  /\ frame' = frl_enter(fn, pathname, MAXPATH, frame.cwd)
  /\ UNCHANGED lockvars
  /\ UNCHANGED <<icache, dinodes, bitmap, disk, halted, pc, hnd, nref, shadow>>

PRestart ==
  /\ Running /\ frame.at = "restart"
  /\ frame' = frl_restart(frame)
  /\ UNCHANGED lockvars
  /\ UNCHANGED <<icache, dinodes, bitmap, disk, halted, pc, hnd, nref, shadow,
                 call>>

PStep(g) ==
  /\ Running /\ frame.at = "loop"
  /\ LET sk == skipelem(frame.rest)
     IN  (sk.ok /\ sk.len >= DIRSIZ /\ ~frame.junkread) \/ g = <<>>
  /\ \E r \in {frl_step(cur, frame, g)} :
       /\ Install(r.st)
       /\ frame' = r.f
  /\ UNCHANGED lockvars
  /\ UNCHANGED <<pc, hnd, nref, shadow, call>>

NextPath ==
  \/ \E fn \in Functions, pathname \in PathInputs \cup {frame.buf} :
       PStart(fn, pathname)
  \/ PRestart
  \/ \E g \in Junks : PStep(g)

SpecPath == InitPath /\ [][NextPath]_vars

(* The tree read directly from Files: the inode a name leads to from a     *)
(* directory (0 when there is none), and the inode a path leads to when    *)
(* no symlink is followed.                                                 *)
ImageLookup(dir, name) ==
  LET cells == Files[dir].cells
      hits == {k \in 1 .. Len(cells) :
                 cells[k].inum # 0 /\ namecmp(name, cells[k].name)}
  IN  IF hits = {} THEN 0 ELSE cells[Min(hits)].inum

RECURSIVE Walk(_, _)
Walk(inum, path) ==
  LET sk == skipelem(path)
  IN  IF inum = 0 \/ ~sk.ok THEN inum
      ELSE IF Files[inum].type # T_DIR THEN 0
      ELSE Walk(ImageLookup(inum, sk.name), sk.path)

(* The positions of str at which a component ends. *)
ComponentEnds(str) ==
  {k \in 1 .. Len(str) :
     str[k] # "/" /\ (k = Len(str) \/ str[k + 1] = "/")}

LastEnd(str) ==
  CHOOSE k \in ComponentEnds(str) : \A m \in ComponentEnds(str) : m <= k

(* Every component of str, or every one but the last, leads to an inode    *)
(* that is not a symlink, from the root or from the directory cwd.         *)
SymlinkFree(str, cwd, butlast) ==
  \A k \in ComponentEnds(str) :
    (butlast /\ k = LastEnd(str)) \/
    LET inum == Walk(IF Head(str) = "/" THEN ROOTINO ELSE cwd,
                     SubSeq(str, 1, k))
    IN  inum # 0 /\ Files[inum].type # T_SYMLINK

Returned == frame.at = "done" /\ frame.ret >= 0

(* The substitutions a path into the chain needs: ChainPath(j) when its    *)
(* last element is resolved, ChainThrough(j) in both functions.            *)
ChainNeed(j) == ChainLen - j + 1

InChain(j) ==
  \/ frame.pathname = ChainThrough(j)
  \/ frame.pathname = ChainPath(j) /\ frame.fn = "filereadlink"

InCycle ==
  \/ frame.pathname = <<"/", "x", "/", "g">>
  \/ frame.pathname = <<"/", "x">> /\ frame.fn = "filereadlink"

(* C8 as stated: a call on a path that needs k substitutions succeeds for  *)
(* every k up to MAX_SYMLINK_LOOPS, fails with -1 for a larger k, and      *)
(* fails on a path that runs into a cycle.                                 *)
C8_AsStated ==
  frame.at = "done" =>
    /\ \A j \in 1 .. ChainLen :
         InChain(j) =>
           IF ChainNeed(j) <= MAX_SYMLINK_LOOPS
           THEN frame.ret >= 0 ELSE frame.ret = 0 - 1
    /\ InCycle => frame.ret = 0 - 1

(* What holds instead: a call succeeds when it needs fewer than            *)
(* MAX_SYMLINK_LOOPS substitutions, and fails from MAX_SYMLINK_LOOPS on.   *)
C8_BudgetOneLess ==
  frame.at = "done" =>
    /\ \A j \in 1 .. ChainLen :
         InChain(j) =>
           IF ChainNeed(j) < MAX_SYMLINK_LOOPS
           THEN frame.ret >= 0 /\ frame.subs = ChainNeed(j)
           ELSE frame.ret = 0 - 1 /\ frame.subs = MAX_SYMLINK_LOOPS
    /\ InCycle => (frame.ret = 0 - 1 /\ frame.subs = MAX_SYMLINK_LOOPS)

(* A call on the first of exactly MAX_SYMLINK_LOOPS symlinks returned -1   *)
(* at its last substitution.                                               *)
C8_Witness ==
  /\ frame.at = "done" /\ frame.ret = 0 - 1 /\ frame.why = "loops"
  /\ \E j \in 1 .. ChainLen :
       InChain(j) /\ ChainNeed(j) = MAX_SYMLINK_LOOPS

(* C9 as stated: the string a call returns begins with "/" and none of its *)
(* components (none but the last, for filereadlinki) names a symlink.      *)
C9_AsStated ==
  (Returned /\ frame.buf # <<>>) =>
    /\ Head(frame.buf) = "/"
    /\ SymlinkFree(frame.buf, icache[frame.cwd].inum,
                   frame.fn = "filereadlinki")

(* C9 amended: the string a call returns begins with "/" when the path     *)
(* given does; none of its components (none but the last, for              *)
(* filereadlinki) names a symlink, read from the root or, for a string     *)
(* that does not begin with "/", from the current directory.               *)
C9_Amended ==
  (Returned /\ frame.buf # <<>>) =>
    /\ Head(frame.pathname) = "/" => Head(frame.buf) = "/"
    /\ SymlinkFree(frame.buf, icache[frame.cwd].inum,
                   frame.fn = "filereadlinki")

(* filereadlink returned a string that does not begin with "/" for a path  *)
(* that does not, after a substitution.                                    *)
C9_Witness ==
  /\ Returned /\ frame.fn = "filereadlink" /\ frame.subs > 0
  /\ Head(frame.pathname) # "/" /\ Head(frame.buf) # "/"
  /\ Cardinality(ComponentEnds(frame.buf)) >= 2

(* C10 as stated: filereadlink on the string c that filereadlink returned  *)
(* returns c, and the same length.                                         *)
C10_AsStated ==
  (frame.at = "done" /\ call.nw = 1 /\ frame.fn = "filereadlink") =>
    (frame.ret = call.ret /\ frame.buf = call.src)

(* What holds instead: the second call returns the same string and length  *)
(* when it has read no element of DIRSIZ or more characters.               *)
C10_ShortNames ==
  (frame.at = "done" /\ call.nw = 1 /\ frame.fn = "filereadlink"
     /\ ~frame.junkread) =>
    (frame.ret = call.ret /\ frame.buf = call.src)

(* The second call returned, on the result of a first call that had        *)
(* substituted symlinks.                                                   *)
C10_Witness ==
  /\ frame.at = "done" /\ call.nw = 1 /\ frame.fn = "filereadlink"
  /\ ~frame.junkread /\ frame.ret = call.ret /\ frame.buf = call.src
  /\ call.data # call.src /\ Len(call.src) > 2

-----------------------------------------------------------------------------
(* The password layer: the password field of an inode, the table of        *)
(* exempt processes and the open-file table.  Its routines work on the     *)
(* file-system record extended by ui (unlocked_inodes.pids) and ft         *)
(* (ftable.file).  fs.h, param.h and file.h are not among the source       *)
(* files: PASSLEN, NPROC and NFILE are scaled.                             *)

PASSLEN == 3
NPROC == 2
NFILE == 1
FD_NONE == 0
FD_INODE == 2

(* strncmp(s, t, n) == 0 *)
strncmp(s, t, n) == strncpy(s, n) = strncpy(t, n)

NoFile == [ref |-> 0, type |-> FD_NONE, ip |-> NoSlot]

(* filereadlinki as one call: the passes of its loop until it returns. *)
RECURSIVE frl_run(_, _, _)
frl_run(s, f, g) ==
  IF ~Ok(s) \/ f.at = "done" THEN [st |-> s, f |-> f]
  ELSE IF f.at = "restart" THEN frl_run(s, frl_restart(f), g)
  ELSE Bind(frl_step(s, f, g), LAMBDA r : frl_run(r.st, r.f, g))

filereadlinki(s, pathname, bufsiz, cwd, g) ==
  frl_run(s, frl_enter("filereadlinki", pathname, bufsiz, cwd), g)

(* A first loop of unlock_inode that finds nobody. *)
unlock_inode_has_never(row, pid) == FALSE

(* unlock_inode, first loop: the row holds pid already. *)
unlock_inode_has(row, pid) == \E i \in DOMAIN row : row[i] = pid

(* A second loop of unlock_inode that takes slot 0 whatever it holds. *)
unlock_inode_slot_first(row) == 0

(* unlock_inode, second loop: the first free slot, or NoSlot. *)
unlock_inode_slot(row) ==
  LET free == {i \in DOMAIN row : row[i] = 0}
  IN  IF free = {} THEN NoSlot ELSE Min(free)

(* unlock_inode for the process pid. *)
unlock_inode(s, ip, pid) ==
  LET inum == s.ic[ip].inum
      row == s.ui[inum]
  IN  IF unlock_inode_has(row, pid) THEN Ret(s, 0)
      ELSE IF unlock_inode_slot(row) = NoSlot
      THEN Ret(Halt(s, "unlock_inodes: No free pid slots found"), 0)
      ELSE Ret([s EXCEPT !.ui[inum][unlock_inode_slot(row)] = pid], 0)

(* A purge that clears nothing. *)
free_inode_locks_keep(v, pid) == v

(* free_inode_locks, one slot. *)
free_inode_locks_slot(v, pid) == IF v = pid THEN 0 ELSE v

free_inode_locks(s, pid) ==
  Ret([s EXCEPT !.ui =
         [i \in DOMAIN s.ui |->
            [j \in DOMAIN s.ui[i] |->
               free_inode_locks_slot(s.ui[i][j], pid)]]], 0)

is_inode_unlocked(s, ip, pid) ==
  \E i \in DOMAIN s.ui[s.ic[ip].inum] : s.ui[s.ic[ip].inum][i] = pid

(* A test of fork_pids that takes any process in the row for the parent. *)
fork_pids_has_any(row, old_pid) == \E j \in DOMAIN row : row[j] # 0

(* fork_pids, the test of its middle loop: the row holds old_pid. *)
fork_pids_has(row, old_pid) == \E j \in DOMAIN row : row[j] = old_pid

(* fork_pids, the body of its outer loop for row i. *)
fork_pids_row(s, i, old_pid, new_pid) ==
  LET row == s.ui[i]
      free == {k \in DOMAIN row : row[k] = 0}
  IN  IF ~fork_pids_has(row, old_pid) THEN Ret(s, 0)
      ELSE IF free = {}
      THEN Ret(Halt(s, "fork_pids: No free pid slots found"), 0)
      ELSE Ret([s EXCEPT !.ui[i][Min(free)] = new_pid], 0)

(* fork_pids, the rows from i on, in order. *)
RECURSIVE fork_pids_from(_, _, _, _)
fork_pids_from(s, i, old_pid, new_pid) ==
  IF i \notin DOMAIN s.ui \/ ~Ok(s) THEN Ret(s, 0)
  ELSE fork_pids_from(fork_pids_row(s, i, old_pid, new_pid).st, i + 1,
                      old_pid, new_pid)

fork_pids(s, old_pid, new_pid) == fork_pids_from(s, 0, old_pid, new_pid)

(* is_inode_open: some open file object refers to the inode. *)
is_inode_open(s, ip) ==
  \E f \in DOMAIN s.ft :
    s.ft[f].ref > 0 /\ s.ft[f].type = FD_INODE /\ s.ft[f].ip = ip

(* The common start of filefprot, filefunprot and filefunlock:             *)
(* filereadlinki, namei on its result, ilock.  ret is the locked inode,    *)
(* or NoSlot when the function returns -1.                                 *)
final_inode(s, pathname, cwd, g) ==
  Bind(filereadlinki(s, pathname, MAXPATH, cwd, g), LAMBDA c :
    IF ~Ok(c.st) \/ c.f.ret < 0 THEN Ret(c.st, NoSlot)
    ELSE Then(namei(c.st, c.f.buf, cwd), LAMBDA s1, ip :
           IF ip = NoSlot THEN Ret(s1, NoSlot)
           ELSE Then(ilock(s1, ip), LAMBDA s2, x : Ret(s2, ip))))

(* iunlock(ip); return ret; *)
unlock_return(s, ip, ret) == Then(iunlock(s, ip), LAMBDA s1, x : Ret(s1, ret))

(* What filefprot stores for a password. *)
fprot_store(password) == safestrcpy(password, PASSLEN)

filefprot(s, pathname, password, cwd, g) ==
  Then(final_inode(s, pathname, cwd, g), LAMBDA s1, ip :
    IF ip = NoSlot THEN Ret(s1, 0 - 1)
    ELSE IF s1.ic[ip].type # T_FILE THEN unlock_return(s1, ip, 0 - 1)
    ELSE IF s1.ic[ip].password # <<>> THEN unlock_return(s1, ip, 0 - 1)
    ELSE IF is_inode_open(s1, ip) THEN unlock_return(s1, ip, 0 - 1)
    ELSE unlock_return(
           [s1 EXCEPT !.ic[ip].password = fprot_store(password)], ip, 0))

(* A password test that takes every password for the right one. *)
password_match_any(stored, password) == TRUE

(* The password test of filefunprot and filefunlock. *)
password_match(stored, password) == strncmp(stored, password, PASSLEN)

filefunprot(s, pathname, password, cwd, g) ==
  Then(final_inode(s, pathname, cwd, g), LAMBDA s1, ip :
    IF ip = NoSlot THEN Ret(s1, 0 - 1)
    ELSE IF s1.ic[ip].password = <<>> THEN unlock_return(s1, ip, 0)
    ELSE IF ~password_match(s1.ic[ip].password, password)
    THEN unlock_return(s1, ip, 0 - 1)
    ELSE unlock_return([s1 EXCEPT !.ic[ip].password = <<>>], ip, 0))

filefunlock(s, pathname, password, cwd, g, pid) ==
  Then(final_inode(s, pathname, cwd, g), LAMBDA s1, ip :
    IF ip = NoSlot THEN Ret(s1, 0 - 1)
    ELSE IF s1.ic[ip].password = <<>> THEN unlock_return(s1, ip, 0 - 1)
    ELSE IF ~password_match(s1.ic[ip].password, password)
    THEN unlock_return(s1, ip, 0 - 1)
    ELSE Then(unlock_inode(s1, ip, pid), LAMBDA s2, x :
           unlock_return(s2, ip, 0)))

(* filealloc: the first file object with ref 0, or NoSlot. *)
filealloc(s) ==
  LET free == {f \in DOMAIN s.ft : s.ft[f].ref = 0}
  IN  IF free = {} THEN Ret(s, NoSlot)
      ELSE Ret([s EXCEPT !.ft[Min(free)].ref = 1], Min(free))

(* fileclose of an inode-backed file object. *)
fileclose(s, f) ==
  IF s.ft[f].ref < 1 THEN Ret(Halt(s, "fileclose"), 0)
  ELSE IF s.ft[f].ref > 1 THEN Ret([s EXCEPT !.ft[f].ref = @ - 1], 0)
  ELSE LET ff == s.ft[f]
           s1 == [s EXCEPT !.ft[f].ref = 0, !.ft[f].type = FD_NONE]
       IN  IF ff.type = FD_INODE THEN iput(s1, ff.ip) ELSE Ret(s1, 0)

(* The open system call on a regular file, as far as this layer sees it:   *)
(* the inode is found by namei, the password check is made, and a file     *)
(* object is allocated that keeps the reference.                           *)
open_file(s, path, cwd, pid) ==
  Then(namei(s, path, cwd), LAMBDA s1, ip :
    IF ip = NoSlot THEN Ret(s1, 0 - 1)
    ELSE Then(ilock(s1, ip), LAMBDA s2, x :
      IF s2.ic[ip].type # T_FILE
         \/ (s2.ic[ip].password # <<>> /\ ~is_inode_unlocked(s2, ip, pid))
      THEN Then(iunlockput(s2, ip), LAMBDA s3, y : Ret(s3, 0 - 1))
      ELSE Then(filealloc(s2), LAMBDA s3, f :
             IF f = NoSlot
             THEN Then(iunlockput(s3, ip), LAMBDA s4, y : Ret(s4, 0 - 1))
             ELSE unlock_return(
                    [s3 EXCEPT !.ft[f].type = FD_INODE, !.ft[f].ip = ip],
                    ip, f))))

-----------------------------------------------------------------------------
(* The password layer at work on the file-system image.  The process layer *)
(* is not among the source files: a process is its pid, fork hands out     *)
(* nextpid and calls fork_pids, exit calls free_inode_locks.               *)

MaxPid == 3        \* pids handed out in one behaviour
MaxHeld == 4       \* references held when the last call starts (one more in SpecProt)

lcur == [ic |-> icache, di |-> dinodes, bm |-> bitmap, dk |-> disk,
         halt |-> halted, ui |-> unlocked_inodes, ft |-> ftable]

LInstall(s) ==
  /\ Install(s)
  /\ unlocked_inodes' = s.ui
  /\ ftable' = s.ft

(* The cache entries that hold inode inum. *)
EntriesOf(inum) ==
  {i \in DOMAIN icache : icache[i].ref > 0 /\ icache[i].inum = inum}

(* The password of inode inum: the field of its cache entry when it has    *)
(* one that is loaded, the field of its dinode otherwise.                  *)
Password(inum) ==
  LET hits == {i \in EntriesOf(inum) : icache[i].valid}
  IN  IF hits = {} THEN dinodes[inum].password
      ELSE icache[Min(hits)].password

(* Some open file object refers to inode inum. *)
IsOpen(inum) ==
  \E f \in DOMAIN ftable :
    ftable[f].ref > 0 /\ ftable[f].ip \in EntriesOf(inum)

(* The pids in the row of inode inum. *)
Exempt(ui, inum) == {ui[inum][j] : j \in DOMAIN ui[inum]} \ {0}

(* The references held in the cache, over all entries from i on. *)
RECURSIVE RefSum(_, _)
RefSum(ic, i) ==
  IF i \notin DOMAIN ic THEN 0 ELSE ic[i].ref + RefSum(ic, i + 1)

(* The inode a path leads to in the tree of Files when every symlink but   *)
(* one in the last component is followed; 0 when it leads nowhere.         *)
RECURSIVE Follow(_, _, _)
Follow(dir, path, fuel) ==
  LET sk == skipelem(path)
      nxt == ImageLookup(dir, sk.name)
  IN  IF ~sk.ok THEN dir
      ELSE IF Files[dir].type # T_DIR \/ nxt = 0 THEN 0
      ELSE IF sk.path = <<>> THEN nxt
      ELSE IF Files[nxt].type # T_SYMLINK THEN Follow(nxt, sk.path, fuel)
      ELSE IF fuel = 0 THEN 0
      ELSE LET target == Files[nxt].cells
           IN  Follow(IF target # <<>> /\ Head(target) = "/"
                      THEN ROOTINO ELSE dir,
                      target \o <<"/">> \o sk.path, fuel - 1)

Target(path) == Follow(ROOTINO, path, MAX_SYMLINK_LOOPS)

(* The file system at boot, with one process in the root directory.  The   *)
(* files of the set prot were protected with the password a, and their     *)
(* inodes written, before the system went down.                            *)
FInum == 3
LmnInum == 9

(* iget of each inode of the sequence, in order. *)
RECURSIVE Hold(_, _)
Hold(s, inums) ==
  IF inums = <<>> THEN s
  ELSE Hold(iget(s, ROOTDEV, Head(inums)).st, Tail(inums))

Boot(prot, held) ==
  /\ LET r == iget(ImageState, ROOTDEV, ROOTINO)
     IN  /\ icache = Hold(r.st, held).ic
         /\ dinodes = [i \in DOMAIN r.st.di |->
                         IF i \in prot
                         THEN [r.st.di[i] EXCEPT !.password = <<"a">>]
                         ELSE r.st.di[i]]
         /\ bitmap = r.st.bm
         /\ disk = r.st.dk
         /\ halted = r.st.halt
         /\ frame = [NoFrame EXCEPT !.cwd = r.ret]
  /\ pc = [t \in Threads |-> "idle"]
  /\ hnd = [t \in Threads |-> NoSlot]
  /\ nref = [t \in Threads |-> 0]
  /\ shadow = [i \in Inums |-> <<>>]
  /\ call = NoCall
  /\ unlocked_inodes = [i \in {0} \cup ImageInums |->
                          [j \in 0 .. (NPROC - 1) |-> 0]]
  /\ ftable = [f \in 0 .. (NFILE - 1) |-> NoFile]
  /\ procs = {1}
  /\ nextpid = 2
  /\ last = NoLast

(* One call of the password layer by process p.  g is what the read of    *)
(* name[DIRSIZ] yields in filereadlinki.                                   *)
LockCall(op, p, path, pw, g) ==
  IF op = "filefprot" THEN filefprot(lcur, path, pw, frame.cwd, g)
  ELSE IF op = "filefunprot" THEN filefunprot(lcur, path, pw, frame.cwd, g)
  ELSE filefunlock(lcur, path, pw, frame.cwd, g, p)

(* Some component of the path has DIRSIZ or more characters. *)
RECURSIVE HasLong(_)
HasLong(path) ==
  LET sk == skipelem(path)
  IN  sk.ok /\ (sk.len >= DIRSIZ \/ HasLong(sk.path))

Snapshot(op, p, path, pw, r) ==
  LET inum == IF path = <<>> THEN 0 ELSE Target(path)
  IN  [op |-> op, pid |-> p, path |-> path, pw |-> pw, done |-> Ok(r.st),
       ret |-> r.ret,
       prepw |-> IF inum = 0 THEN <<>> ELSE Password(inum),
       preopen |-> inum # 0 /\ IsOpen(inum),
       preui |-> unlocked_inodes, n |-> 0]

LCall(op, p, path, pw, g, held) ==
  /\ Running /\ p \in procs /\ RefSum(icache, 0) < held
  /\ HasLong(path) \/ g = <<>>
  /\ \E r \in {LockCall(op, p, path, pw, g)} :
       /\ LInstall(r.st)
       /\ last' = Snapshot(op, p, path, pw, r)
  /\ UNCHANGED <<pc, hnd, nref, shadow, call, frame, procs, nextpid>>

-----------------------------------------------------------------------------
(* One process protects and unprotects, opens and closes.  No path has a   *)
(* component of DIRSIZ or more characters.                                 *)

ProtPaths ==
  {<<"/", "f">>, <<"/", "b", "/", "g">>, <<"/", "d">>, <<"/", "a">>,
   <<"/", "n">>, <<"/", "f", "/", "g">>}

FilePaths == {<<"/", "f">>, <<"/", "b", "/", "g">>}

OpenPaths == {<<"/", "f">>}

ProtPasswords == {<<"a">>, <<"a", "b", "c">>}

PFprot(path, pw) == LCall("filefprot", 1, path, pw, <<>>, MaxHeld + 1)

PFunprot(path, pw) == LCall("filefunprot", 1, path, pw, <<>>, MaxHeld + 1)

POpen(path) ==
  /\ Running /\ RefSum(icache, 0) < MaxHeld + 1
  /\ \E r \in {open_file(lcur, path, frame.cwd, 1)} :
       /\ LInstall(r.st)
       /\ last' = Snapshot("open", 1, path, <<>>, r)
  /\ UNCHANGED <<pc, hnd, nref, shadow, call, frame, procs, nextpid>>

PClose(f) ==
  /\ Running /\ ftable[f].ref > 0
  /\ \E r \in {fileclose(lcur, f)} :
       /\ LInstall(r.st)
       /\ last' = Snapshot("close", 1, <<>>, <<>>, r)
  /\ UNCHANGED <<pc, hnd, nref, shadow, call, frame, procs, nextpid>>

NextProt ==
  \/ \E path \in ProtPaths, pw \in ProtPasswords : PFprot(path, pw)
  \/ \E path \in FilePaths, pw \in ProtPasswords : PFunprot(path, pw)
  \/ \E path \in OpenPaths : POpen(path)
  \/ \E f \in DOMAIN ftable : PClose(f)

InitProt == Boot({}, <<>>)

SpecProt == InitProt /\ [][NextProt]_vars

(* The last call has returned and its path leads to a regular file. *)
OnFile(op) ==
  /\ last.op = op /\ last.done
  /\ Target(last.path) # 0 /\ Files[Target(last.path)].type = T_FILE

MayProtect ==
  /\ Target(last.path) # 0 /\ Files[Target(last.path)].type = T_FILE
  /\ last.prepw = <<>> /\ ~last.preopen

(* C12 as stated: filefprot returns 0 and the password is the one given    *)
(* when the path leads to a regular file without password that nobody has  *)
(* open; in every other case it returns -1 and the password is unchanged.  *)
C12_AsStated ==
  (last.op = "filefprot" /\ last.done) =>
    IF MayProtect
    THEN last.ret = 0 /\ Password(Target(last.path)) = last.pw
    ELSE /\ last.ret = 0 - 1
         /\ Target(last.path) # 0 =>
              Password(Target(last.path)) = last.prepw

(* What holds instead: the password is the first PASSLEN - 1 characters of *)
(* the one given, and filefunprot takes a password for the right one only  *)
(* when it is what was stored.                                             *)
C12_Truncated ==
  /\ (last.op = "filefprot" /\ last.done) =>
       IF MayProtect
       THEN /\ last.ret = 0
            /\ Password(Target(last.path))
                 = SubSeq(last.pw, 1, MinOf(Len(last.pw), PASSLEN - 1))
       ELSE /\ last.ret = 0 - 1
            /\ Target(last.path) # 0 =>
                 Password(Target(last.path)) = last.prepw
  /\ (OnFile("filefunprot") /\ last.prepw # <<>> /\ Len(last.pw) >= PASSLEN)
       => last.ret = 0 - 1

(* filefunprot was given the password that filefprot had been given, of    *)
(* PASSLEN characters, and returned -1.                                    *)
C12_Witness ==
  /\ OnFile("filefunprot") /\ last.ret = 0 - 1
  /\ Len(last.pw) >= PASSLEN
  /\ last.prepw = SubSeq(last.pw, 1, PASSLEN - 1)

-----------------------------------------------------------------------------
(* Processes protect and unprotect the file f, unlock f and lmn, and fork. *)

LockPasswords == {<<"a">>, <<"b">>}

(* The path and password arguments of filefunlock. *)
LockGrants ==
  {<<<<"/", "f">>, <<"a">>>>, <<<<"/", "f">>, <<"b">>>>,
   <<<<"/", "l", "m", "n">>, <<"a">>>>}

LFprot(pw) == LCall("filefprot", 1, <<"/", "f">>, pw, <<>>, MaxHeld)

LFunprot(pw) == LCall("filefunprot", 1, <<"/", "f">>, pw, <<>>, MaxHeld)

LFunlock(p, path, pw, g) == LCall("filefunlock", p, path, pw, g, MaxHeld)

LFork(p) ==
  /\ Running /\ p \in procs /\ nextpid <= MaxPid
  /\ \E r \in {fork_pids(lcur, p, nextpid)} :
       /\ LInstall(r.st)
       /\ last' = [Snapshot("fork", p, <<>>, <<>>, r) EXCEPT !.n = nextpid]
  /\ procs' = procs \cup {nextpid}
  /\ nextpid' = nextpid + 1
  /\ UNCHANGED <<pc, hnd, nref, shadow, call, frame>>

NextLock ==
  \/ \E pw \in LockPasswords : LFprot(pw)
  \/ \E pw \in LockPasswords : LFunprot(pw)
  \/ \E p \in procs, a \in LockGrants, g \in Junks :
       LFunlock(p, a[1], a[2], g)
  \/ \E p \in procs : LFork(p)

InitLock == Boot({FInum, LmnInum}, <<>>)

SpecLock == InitLock /\ [][NextLock]_vars

-----------------------------------------------------------------------------
(* The exemption table under grants, forks and exits: unlock_inode on the  *)
(* cache entries of f and lmn, fork_pids and free_inode_locks.             *)

InitTable == Boot({FInum, LmnInum}, <<FInum, LmnInum>>)

(* The cache entries a grant can be made on. *)
Granted == {i \in DOMAIN icache : icache[i].ref > 0 /\ icache[i].inum # ROOTINO}

TGrant(p, ip) ==
  /\ Running /\ p \in procs /\ ip \in Granted
  /\ \E r \in {unlock_inode(lcur, ip, p)} :
       /\ LInstall(r.st)
       /\ last' = [Snapshot("unlock_inode", p, <<>>, <<>>, r)
                     EXCEPT !.n = icache[ip].inum]
  /\ UNCHANGED <<pc, hnd, nref, shadow, call, frame, procs, nextpid>>

TFork(p) ==
  /\ Running /\ p \in procs /\ nextpid <= MaxPid
  /\ \E r \in {fork_pids(lcur, p, nextpid)} :
       /\ LInstall(r.st)
       /\ last' = [Snapshot("fork_pids", p, <<>>, <<>>, r)
                     EXCEPT !.n = nextpid]
  /\ procs' = procs \cup {nextpid}
  /\ nextpid' = nextpid + 1
  /\ UNCHANGED <<pc, hnd, nref, shadow, call, frame>>

TExit(p) ==
  /\ Running /\ p \in procs
  /\ \E r \in {free_inode_locks(lcur, p)} :
       /\ LInstall(r.st)
       /\ last' = Snapshot("free_inode_locks", p, <<>>, <<>>, r)
  /\ procs' = procs \ {p}
  /\ UNCHANGED <<pc, hnd, nref, shadow, call, frame, nextpid>>

NextTable ==
  \/ \E p \in procs, ip \in Granted : TGrant(p, ip)
  \/ \E p \in procs : TFork(p)
  \/ \E p \in procs : TExit(p)

SpecTable == InitTable /\ [][NextTable]_vars

-----------------------------------------------------------------------------
(* The slots of the row of inode inum that hold pid. *)
SlotsOf(ui, inum, pid) == {j \in DOMAIN ui[inum] : ui[inum][j] = pid}

(* The last call was filefunlock with the password of the file. *)
RightPassword ==
  /\ last.op = "filefunlock" /\ Target(last.path) # 0
  /\ last.prepw # <<>> /\ last.pw = last.prepw

UnlockPanic == "unlock_inodes: No free pid slots found"

(* C13: filefunlock by process p with the password of a protected file     *)
(* returns 0; afterwards is_inode_unlocked is true for p on that inode, p  *)
(* is in exactly one slot of its row, a process that was exempt already    *)
(* leaves the table as it was, every other row is unchanged and every      *)
(* other process is exempt on that inode exactly when it was before.       *)
C13_GrantFrame ==
  (RightPassword /\ last.done) =>
    LET inum == Target(last.path)
    IN  /\ last.ret = 0
        /\ \A ip \in EntriesOf(inum) : is_inode_unlocked(lcur, ip, last.pid)
        /\ Cardinality(SlotsOf(unlocked_inodes, inum, last.pid)) = 1
        /\ last.pid \in Exempt(last.preui, inum)
             => unlocked_inodes = last.preui
        /\ \A i \in DOMAIN unlocked_inodes :
             i # inum => unlocked_inodes[i] = last.preui[i]
        /\ \A q \in 1 .. MaxPid :
             q # last.pid =>
               (q \in Exempt(unlocked_inodes, inum)
                  <=> q \in Exempt(last.preui, inum))

(* A child was granted an exemption its parent does not have, while        *)
(* another inode has an exempt process.                                    *)
C13_Witness ==
  /\ RightPassword /\ last.done /\ last.ret = 0 /\ last.pid > 1
  /\ 1 \in procs
  /\ last.pid \notin Exempt(last.preui, Target(last.path))
  /\ last.pid \in Exempt(unlocked_inodes, Target(last.path))
  /\ 1 \notin Exempt(unlocked_inodes, Target(last.path))
  /\ \E i \in DOMAIN unlocked_inodes :
       i # Target(last.path) /\ Exempt(unlocked_inodes, i) # {}

(* filefunlock with a wrong password, or on a file without password,       *)
(* returns -1 and changes neither the table nor the password.              *)
GrantRefused ==
  (last.op = "filefunlock" /\ Target(last.path) # 0
     /\ (last.prepw = <<>> \/ last.pw # last.prepw)) =>
    /\ last.done /\ last.ret = 0 - 1
    /\ unlocked_inodes = last.preui
    /\ Password(Target(last.path)) = last.prepw

(* The row of the file had no free slot before the last call. *)
RowFull == \A j \in DOMAIN last.preui[Target(last.path)] :
             last.preui[Target(last.path)][j] # 0

(* C14 as stated: a refused filefunlock returns -1 and changes nothing;    *)
(* with the right password and no free slot in the row the kernel panics.  *)
C14_AsStated ==
  /\ GrantRefused
  /\ (RightPassword /\ RowFull) => (~last.done /\ halted = UnlockPanic)

(* C14 amended: with the right password and no free slot the kernel        *)
(* panics when the caller is not in the row; a caller that is in the row   *)
(* gets 0 and the table stays as it was.                                   *)
C14_Amended ==
  /\ GrantRefused
  /\ (RightPassword /\ RowFull
        /\ last.pid \notin Exempt(last.preui, Target(last.path)))
       => (~last.done /\ halted = UnlockPanic)
  /\ (RightPassword /\ RowFull
        /\ last.pid \in Exempt(last.preui, Target(last.path)))
       => (last.done /\ last.ret = 0 /\ unlocked_inodes = last.preui)
  /\ halted = UnlockPanic => (RightPassword /\ RowFull)

(* filefunlock with the right password found the row full of other        *)
(* processes and stopped the kernel.                                       *)
C14_Witness ==
  /\ RightPassword /\ RowFull /\ ~last.done /\ halted = UnlockPanic
  /\ last.pid \notin Exempt(last.preui, Target(last.path))

(* C15: after fork_pids(old, new) returned, on every inode new is exempt   *)
(* exactly when old was, every slot that was taken holds what it held,     *)
(* and every other process is exempt exactly when it was.                  *)
C15_ForkCopy ==
  (last.op = "fork_pids" /\ last.done) =>
    \A i \in DOMAIN unlocked_inodes :
      /\ last.n \in Exempt(unlocked_inodes, i)
           <=> last.pid \in Exempt(last.preui, i)
      /\ Cardinality(SlotsOf(unlocked_inodes, i, last.n)) <= 1
      /\ \A j \in DOMAIN unlocked_inodes[i] :
           last.preui[i][j] # 0 => unlocked_inodes[i][j] = last.preui[i][j]
      /\ \A q \in 1 .. MaxPid :
           q # last.n =>
             (q \in Exempt(unlocked_inodes, i)
                <=> q \in Exempt(last.preui, i))

(* A fork by a parent that is exempt on one inode and not on another,      *)
(* next to a third process that is exempt.                                 *)
C15_Witness ==
  /\ last.op = "fork_pids" /\ last.done
  /\ \E i, k \in DOMAIN unlocked_inodes :
       /\ last.pid \in Exempt(last.preui, i)
       /\ last.n \in Exempt(unlocked_inodes, i)
       /\ last.pid \notin Exempt(last.preui, k)
       /\ last.n \notin Exempt(unlocked_inodes, k)
       /\ Exempt(last.preui, k) # {}

(* C16: after free_inode_locks(pid), pid is in no row, its slots are free, *)
(* every other slot holds what it held; unlock_inode stops the kernel only *)
(* when the row has no free slot, so a freed slot can be granted again.    *)
C16_ExitPurge ==
  /\ last.op = "free_inode_locks" =>
       /\ last.done
       /\ \A i \in DOMAIN unlocked_inodes :
            /\ last.pid \notin Exempt(unlocked_inodes, i)
            /\ \A j \in DOMAIN unlocked_inodes[i] :
                 unlocked_inodes[i][j] =
                   IF last.preui[i][j] = last.pid THEN 0
                   ELSE last.preui[i][j]
  /\ (last.op = "unlock_inode" /\ ~last.done) =>
       \A j \in DOMAIN last.preui[last.n] : last.preui[last.n][j] # 0
  /\ (last.op = "unlock_inode" /\ last.done) =>
       last.pid \in Exempt(unlocked_inodes, last.n)

(* A process that was exempt on two inodes, one of them through a fork,    *)
(* has exited, and another process is still exempt.                        *)
C16_Witness ==
  /\ last.op = "free_inode_locks" /\ last.done
  /\ \E i, k \in DOMAIN unlocked_inodes :
       /\ i # k
       /\ last.pid \in Exempt(last.preui, i)
       /\ last.pid \in Exempt(last.preui, k)
       /\ Exempt(unlocked_inodes, i) # {}
       /\ last.pid \notin Exempt(unlocked_inodes, i)
       /\ last.pid \notin Exempt(unlocked_inodes, k)

(* C17 as stated: once filefprot has protected a file again, no process is *)
(* exempt on its inode.                                                    *)
C17_AsStated ==
  (last.op = "filefprot" /\ last.done /\ last.ret = 0) =>
    Exempt(unlocked_inodes, Target(last.path)) = {}

(* What holds instead: filefprot, filefunprot, filefunlock and fork_pids   *)
(* take no process out of any row.                                         *)
C17_NoExpiry ==
  last.done =>
    \A i \in DOMAIN unlocked_inodes :
      Exempt(last.preui, i) \subseteq Exempt(unlocked_inodes, i)

(* A process that was granted an exemption under the password a is still   *)
(* exempt after the file was unprotected and protected with b.             *)
C17_Witness ==
  /\ last.op = "filefprot" /\ last.done /\ last.ret = 0
  /\ last.pw = <<"b">> /\ Password(Target(last.path)) = <<"b">>
  /\ Exempt(unlocked_inodes, Target(last.path)) # {}

-----------------------------------------------------------------------------
(* Directories: dirlookup with its *poff, and dirlink.                     *)

(* The value dirlookup stores in *poff: the offset of the first entry in   *)
(* use that matches name, NoSlot when it stores nothing.                   *)
RECURSIVE dirlookup_poff(_, _, _, _)
dirlookup_poff(s, dp, name, off) ==
  IF off >= s.ic[dp].size THEN NoSlot
  ELSE Bind(readi(s, dp, off, 1), LAMBDA r :
         IF ~Ok(r.st) \/ r.ret # 1 THEN NoSlot
         ELSE IF r.data[1].inum # 0 /\ namecmp(name, r.data[1].name)
         THEN off
         ELSE dirlookup_poff(r.st, dp, name, off + 1))

(* A search for an empty dirent that goes straight to the end. *)
dirlink_empty_end(s, dp, off) == Ret(s, s.ic[dp].size)

(* dirlink, the search for an empty dirent: the offset the loop ends at. *)
RECURSIVE dirlink_empty(_, _, _)
dirlink_empty(s, dp, off) ==
  IF off >= s.ic[dp].size THEN Ret(s, off)
  ELSE Bind(readi(s, dp, off, 1), LAMBDA r :
         IF ~Ok(r.st) THEN Ret(r.st, off)
         ELSE IF r.ret # 1 THEN Ret(Halt(r.st, "dirlink read"), off)
         ELSE IF r.data[1].inum = 0 THEN Ret(r.st, off)
         ELSE dirlink_empty(r.st, dp, off + 1))

dirlink(s, dp, name, inum) ==
  Then(dirlookup(s, dp, name), LAMBDA s1, ip :
    IF ip # NoSlot
    THEN Then(iput(s1, ip), LAMBDA s2, x : Ret(s2, 0 - 1))
    ELSE Then(dirlink_empty(s1, dp, 0), LAMBDA s2, off :
         Then(writei(s2, dp, <<Dirent(strncpy(name, DIRSIZ), inum)>>, off),
              LAMBDA s3, n :
                IF n # 1 THEN Ret(Halt(s3, "dirlink"), 0 - 1)
                ELSE Ret(s3, 0))))

-----------------------------------------------------------------------------
(* One process with the directories d and p and the regular file f locked. *)
(* g and r were unlinked from d before: their entries are free and their   *)
(* inodes and blocks released.  p has no room for another entry.           *)

GInum == 4
RInum == 12
FreeDirent == Dirent(<<>>, 0)

DirImage ==
  [ImageState EXCEPT
     !.dk = [b \in DOMAIN @ |->
               IF b = DataBlk(DInum, 1)
               THEN [c \in 0 .. (BSIZE - 1) |-> FreeDirent] ELSE @[b]],
     !.di = [i \in DOMAIN @ |->
               IF i \in {GInum, RInum} THEN ZeroDinode ELSE @[i]],
     !.bm = [b \in DOMAIN @ |->
               IF b # 0 /\ ((b - 1) \div Region) + 1 \in {GInum, RInum}
               THEN FALSE ELSE @[b]]]

(* The content of inode i in DirImage. *)
DirFileCells(i) ==
  IF i = DInum
  THEN [k \in 1 .. Len(Files[i].cells) |->
          IF (k - 1) \div BSIZE = 1 THEN FreeDirent ELSE Files[i].cells[k]]
  ELSE Files[i].cells

(* The last call on a directory or on content: its arguments, what it      *)
(* returned (for dirlookup the number of the inode, 0 for none), the state *)
(* before it, and the state when the routine returned.                     *)
DirCall(op, dp, name, inum, off, n, ret, poff, data, mid) ==
  [op |-> op, dp |-> dp, name |-> name, inum |-> inum, off |-> off, n |-> n,
   ret |-> ret, poff |-> poff, data |-> data, pre |-> cur, mid |-> mid,
   done |-> Ok(mid)]

InitDir ==
  /\ LET r == iget(DirImage, ROOTDEV, ROOTINO)
     IN  /\ icache = r.st.ic
         /\ dinodes = r.st.di
         /\ bitmap = r.st.bm
         /\ disk = r.st.dk
         /\ halted = r.st.halt
         /\ frame = [NoFrame EXCEPT !.cwd = r.ret]
  /\ pc = [t \in Threads |-> "idle"]
  /\ hnd = [t \in Threads |-> NoSlot]
  /\ nref = [t \in Threads |-> 0]
  /\ shadow = [i \in Inums |-> <<>>]
  /\ call = NoCall
  /\ LockUnused

(* The inodes the process locks, in this order, before its first call. *)
OpenOrder == <<DInum, FInum, PInum>>

(* The entries the process holds locked. *)
Locked == {i \in DOMAIN icache : icache[i].ref > 0 /\ icache[i].busy}

(* iget and ilock of the next inode of OpenOrder. *)
DOpen ==
  /\ Running /\ call = NoCall /\ Cardinality(Locked) < Len(OpenOrder)
  /\ \E r \in {Then(iget(cur, ROOTDEV, OpenOrder[Cardinality(Locked) + 1]),
                    LAMBDA s1, ip : ilock(s1, ip))} :
       Install(r.st)
  /\ UNCHANGED lockvars
  /\ UNCHANGED <<frame, pc, hnd, nref, shadow, call>>

DLink(dp, name, inum) ==
  /\ Running /\ dp \in Locked
  /\ \E r \in {dirlink(cur, dp, name, inum)} :
       /\ Install(r.st)
       /\ call' = DirCall("dirlink", dp, name, inum, 0, 0, r.ret, NoSlot,
                          <<>>, r.st)
  /\ UNCHANGED lockvars
  /\ UNCHANGED <<frame, pc, hnd, nref, shadow>>

(* dirlookup, then the iput of the caller that has no use for the inode. *)
DLookup(dp, name) ==
  /\ Running /\ dp \in Locked
  /\ \E r \in {dirlookup(cur, dp, name)} :
     \E fin \in {IF ~Ok(r.st) \/ r.ret = NoSlot THEN r
                 ELSE iput(r.st, r.ret)} :
       /\ Install(fin.st)
       /\ call' = DirCall("dirlookup", dp, name, 0, 0, 0,
                          IF ~Ok(r.st) \/ r.ret = NoSlot THEN 0
                          ELSE r.st.ic[r.ret].inum,
                          IF icache[dp].type = T_DIR
                          THEN dirlookup_poff(cur, dp, name, 0) ELSE NoSlot,
                          <<>>, r.st)
  /\ UNCHANGED lockvars
  /\ UNCHANGED <<frame, pc, hnd, nref, shadow>>

DRead(ip, off, n) ==
  /\ Running /\ ip \in Locked
  /\ \E r \in {readi(cur, ip, off, n)} :
       /\ Install(r.st)
       /\ call' = DirCall("readi", ip, <<>>, 0, off, n, r.ret, NoSlot,
                          r.data, r.st)
  /\ UNCHANGED lockvars
  /\ UNCHANGED <<frame, pc, hnd, nref, shadow>>

DirNames ==
  {<<".">>, <<"a">>, <<"a", "b", "c">>, <<"a", "b", "c", "d">>, <<"s">>}
(* The name and the inode number given to dirlink. *)
LinkInputs ==
  {<<<<".">>, FInum>>, <<<<"a">>, FInum>>, <<<<"a", "b", "c">>, LmnInum>>,
   <<<<"a", "b", "c", "d">>, FInum>>, <<<<"s">>, LmnInum>>}

NextDir ==
  \/ DOpen
  \/ \E dp \in Locked, a \in LinkInputs : DLink(dp, a[1], a[2])
  \/ \E dp \in Locked, name \in DirNames : DLookup(dp, name)

SpecDir == InitDir /\ [][NextDir]_vars

ReadOffs == {0, 1, 2, 3, 5, UintMod - 2}
ReadLens == {0, 1, 2, 4, UintMod - 1}

NextRead ==
  \/ DOpen
  \/ \E ip \in Locked, off \in ReadOffs, n \in ReadLens : DRead(ip, off, n)

SpecRead == InitDir /\ [][NextRead]_vars

-----------------------------------------------------------------------------
(* The entries of directory dp in state s, in offset order. *)
DirCells(s, dp) == readi(s, dp, 0, s.ic[dp].size).data

(* The offsets of the entries in use whose name equals name over DIRSIZ    *)
(* bytes, and the offsets of the free entries.                             *)
Matches(cells, name) ==
  {k - 1 : k \in {j \in 1 .. Len(cells) :
     /\ cells[j].inum # 0
     /\ SubSeq(name, 1, MinOf(Len(name), DIRSIZ))
          = SubSeq(cells[j].name, 1, MinOf(Len(cells[j].name), DIRSIZ))}}
FreeSlots(cells) == {k - 1 : k \in {j \in 1 .. Len(cells) : cells[j].inum = 0}}

Refs(s) == [i \in DOMAIN s.ic |-> s.ic[i].ref]

(* The last call was made on a directory. *)
OnDir(op) == call # NoCall /\ call.op = op /\ call.pre.ic[call.dp].type = T_DIR

(* C18: a dirlink that returns, on a directory: when an entry in use has   *)
(* the name (over DIRSIZ bytes) it returns -1 and the entries, the size and *)
(* every reference count are as before; otherwise it returns 0, the entry  *)
(* (name cut to DIRSIZ, inum) is at the lowest free offset, or at the old   *)
(* size when no entry was free, every other entry is as before, and        *)
(* dirlookup of the name gives the inode numbered inum with that offset in  *)
(* *poff.                                                                  *)
C18_Dirlink ==
  (OnDir("dirlink") /\ call.done) =>
    LET pre == DirCells(call.pre, call.dp)
        now == DirCells(cur, call.dp)
        free == FreeSlots(pre)
        off == IF free = {} THEN Len(pre) ELSE Min(free)
    IN  IF Matches(pre, call.name) # {}
        THEN /\ call.ret = 0 - 1
             /\ now = pre
             /\ icache[call.dp].size = call.pre.ic[call.dp].size
             /\ Refs(cur) = Refs(call.pre)
        ELSE /\ call.ret = 0
             /\ Len(now) = (IF free = {} THEN Len(pre) + 1 ELSE Len(pre))
             /\ icache[call.dp].size = Len(now)
             /\ now[off + 1] =
                  Dirent(SubSeq(call.name, 1, MinOf(Len(call.name), DIRSIZ)),
                         call.inum)
             /\ \A k \in 1 .. Len(pre) : k # off + 1 => now[k] = pre[k]
             /\ LET r == dirlookup(cur, call.dp, call.name)
                IN  /\ r.ret # NoSlot
                    /\ r.st.ic[r.ret].inum = call.inum
             /\ dirlookup_poff(cur, call.dp, call.name, 0) = off
             /\ Refs(cur) = Refs(call.pre)

(* A name longer than DIRSIZ went into the lower of two free entries. *)
C18_Witness ==
  /\ OnDir("dirlink") /\ call.done /\ call.ret = 0
  /\ Len(call.name) > DIRSIZ
  /\ Cardinality(FreeSlots(DirCells(call.pre, call.dp))) = 2
  /\ DirCells(cur, call.dp)[Min(FreeSlots(DirCells(call.pre, call.dp))) + 1].inum
       = call.inum

(* dirlookup found no entry: a null result, and the state as before. *)
NotFound == call.done /\ call.ret = 0 /\ call.poff = NoSlot /\ call.mid = call.pre

(* C19 as stated: dirlookup returns not found, and changes nothing, when   *)
(* the inode is not a directory and when no entry in use has the name.     *)
C19_AsStated ==
  (/\ call # NoCall /\ call.op = "dirlookup"
   /\ \/ call.pre.ic[call.dp].type # T_DIR
      \/ Matches(DirCells(call.pre, call.dp), call.name) = {})
    => NotFound

(* C19 amended: on a directory where no entry in use has the name,         *)
(* dirlookup returns not found and changes nothing; on an inode that is    *)
(* not a directory it stops the kernel; on a directory with such an entry  *)
(* it returns the inode of the first one, with one more reference, and its *)
(* offset.                                                                 *)
C19_Amended ==
  (call # NoCall /\ call.op = "dirlookup") =>
    LET cells == DirCells(call.pre, call.dp)
        hits == Matches(cells, call.name)
    IN  IF call.pre.ic[call.dp].type # T_DIR
        THEN ~call.done /\ halted = "dirlookup not DIR"
        ELSE IF hits = {} THEN NotFound
        ELSE /\ call.done
             /\ call.ret = cells[Min(hits) + 1].inum
             /\ call.poff = Min(hits)
             /\ call.mid.dk = call.pre.dk /\ call.mid.di = call.pre.di
             /\ \E i \in DOMAIN call.mid.ic :
                  /\ call.mid.ic[i].inum = call.ret
                  /\ call.mid.ic[i].ref = call.pre.ic[i].ref + 1
                  /\ \A j \in DOMAIN call.mid.ic :
                       j # i => call.mid.ic[j].ref = call.pre.ic[j].ref

(* dirlookup on a regular file stopped the kernel. *)
C19_Witness ==
  /\ call # NoCall /\ call.op = "dirlookup" /\ ~call.done
  /\ call.pre.ic[call.dp].type = T_FILE
  /\ halted = "dirlookup not DIR"

(* The size of the inode the last readi was made on, and whether off + n   *)
(* passes the width of uint.                                               *)
ReadSize == call.pre.ic[call.dp].size
ReadWraps == call.off + call.n >= UintMod
ReadBytes(k) ==
  /\ call.ret = k
  /\ call.data = SubSeq(DirFileCells(call.pre.ic[call.dp].inum),
                        call.off + 1, call.off + k)

(* C20 as stated: readi returns -1 when off + n wraps; otherwise 0 bytes   *)
(* when off is at or beyond the size and min(n, size - off) bytes when off *)
(* is below it; it changes nothing.                                        *)
C20_AsStated ==
  (call # NoCall /\ call.op = "readi") =>
    /\ ReadWraps => call.ret = 0 - 1
    /\ (~ReadWraps /\ call.off >= ReadSize) => call.ret = 0
    /\ (~ReadWraps /\ call.off < ReadSize)
         => ReadBytes(MinOf(call.n, ReadSize - call.off))
    /\ call.mid = call.pre

(* C20 amended: readi returns -1 when off + n wraps and when off is beyond *)
(* the size; 0 bytes when off is the size; min(n, size - off) bytes, those *)
(* of the file, when off is below it; it changes nothing.                  *)
C20_Amended ==
  (call # NoCall /\ call.op = "readi") =>
    /\ ReadWraps => call.ret = 0 - 1
    /\ call.off > ReadSize => call.ret = 0 - 1
    /\ (~ReadWraps /\ call.off = ReadSize) => call.ret = 0
    /\ (~ReadWraps /\ call.off < ReadSize)
         => ReadBytes(MinOf(call.n, ReadSize - call.off))
    /\ call.mid = call.pre

(* A read of a regular file that starts inside it and asks for more than   *)
(* is left.                                                                *)
C20_Witness ==
  /\ call # NoCall /\ call.op = "readi"
  /\ call.pre.ic[call.dp].type = T_FILE
  /\ call.off > 0 /\ call.off < ReadSize
  /\ call.n > ReadSize - call.off /\ ~ReadWraps
  /\ call.ret = ReadSize - call.off

-----------------------------------------------------------------------------
(* Files that grow: ialloc and ilock as create makes them, then writei on  *)
(* the locked inode at the start, inside, and at the end of the file.      *)

(* create: ialloc of a regular file, then ilock. *)
ACreate ==
  /\ Running
  /\ \E r \in {Then(ialloc(cur, T_FILE), LAMBDA s1, ip : ilock(s1, ip))} :
       Install(r.st)
  /\ UNCHANGED lockvars
  /\ UNCHANGED <<frame, pc, hnd, nref, shadow, call>>

AWrite(ip, off, n) ==
  /\ Running /\ ip \in Locked
  /\ \E r \in {writei(cur, ip, [k \in 1 .. n |-> "w"], off)} :
       /\ Install(r.st)
       /\ call' = DirCall("writei", ip, <<>>, icache[ip].inum, off, n, r.ret,
                          NoSlot, <<>>, r.st)
  /\ UNCHANGED lockvars
  /\ UNCHANGED <<frame, pc, hnd, nref, shadow>>

AppendOffs(ip) == {0, icache[ip].size, icache[ip].size + 1}
AppendLens == {1, BSIZE + 1, EndFile}

NextAppend ==
  \/ ACreate
  \/ \E ip \in Locked : \E off \in AppendOffs(ip), n \in AppendLens :
       AWrite(ip, off, n)

SpecAppend == InitBlocks /\ [][NextAppend]_vars

(* The size of the inode before the last writei, and the end of the write. *)
WriteSize == call.pre.ic[call.dp].size
WriteEnd == call.off + call.n

(* C21: a writei that returns, on a regular file: with off <= size and     *)
(* off + n <= MAXFILE * BSIZE it returns n, the size is the larger of the  *)
(* old size and off + n, and the dinode holds the new size when it grew;   *)
(* with off + n > MAXFILE * BSIZE it returns -1 and cache, dinodes, bitmap *)
(* and disk are as before.                                                 *)
C21_WriteSize ==
  (call # NoCall /\ call.op = "writei" /\ call.done
     /\ call.off <= WriteSize) =>
    IF WriteEnd <= EndFile
    THEN /\ call.ret = call.n
         /\ icache[call.dp].size =
              (IF WriteEnd > WriteSize THEN WriteEnd ELSE WriteSize)
         /\ WriteEnd > WriteSize => dinodes[call.inum].size = WriteEnd
         /\ WriteEnd <= WriteSize => call.mid.di = call.pre.di
    ELSE /\ call.ret = 0 - 1
         /\ call.mid = call.pre

(* An append that starts in the double-indirect region, not at the start   *)
(* of a block, took the file to MAXFILE * BSIZE.                           *)
C21_Witness ==
  /\ call # NoCall /\ call.op = "writei" /\ call.done
  /\ call.off = WriteSize /\ call.off > EndIndirect /\ call.off % BSIZE # 0
  /\ WriteEnd = EndFile /\ call.ret = call.n
  /\ dinodes[call.inum].size = EndFile

-----------------------------------------------------------------------------
(* The threads of SpecCache on a cache that is nearly full: all slots but  *)
(* the last one or two are held, unlocked and never loaded, for inodes of  *)
(* a second device.                                                        *)

OTHERDEV == 2

InitFull ==
  /\ \E k \in {NINODE - 2, NINODE - 1} :
       icache = [i \in Slots |->
                   IF i < k
                   THEN [ZeroInode EXCEPT !.dev = OTHERDEV, !.inum = i + 1,
                                          !.ref = 1]
                   ELSE ZeroInode]
  /\ dinodes = [i \in Inums |->
                  IF i = ROOTINO
                  THEN [ZeroDinode EXCEPT !.type = T_FILE, !.nlink = 1]
                  ELSE ZeroDinode]
  /\ bitmap = FreshBitmap
  /\ disk = FreshDisk
  /\ halted = "none"
  /\ pc = [t \in Threads |-> "idle"]
  /\ hnd = [t \in Threads |-> NoSlot]
  /\ nref = [t \in Threads |-> 0]
  /\ shadow = [i \in Inums |-> <<>>]
  /\ call = NoCall
  /\ LockUnused
  /\ frame = NoFrame

SpecFull == InitFull /\ [][NextCache]_vars

(* What iget(ROOTDEV, inum) by thread t does to the cache in one step. *)
IgetEffect(t, inum) ==
  LET live == {i \in Slots : icache[i].ref > 0 /\ icache[i].dev = ROOTDEV
                            /\ icache[i].inum = inum}
      free == {i \in Slots : icache[i].ref = 0}
  IN  IF live # {}
      THEN /\ halted' = "none"
           /\ hnd'[t] \in live
           /\ icache' = [icache EXCEPT ![hnd'[t]].ref = @ + 1]
      ELSE IF free # {}
      THEN /\ halted' = "none"
           /\ hnd'[t] \in free
           /\ icache'[hnd'[t]] =
                [icache[hnd'[t]] EXCEPT !.dev = ROOTDEV, !.inum = inum,
                                        !.ref = 1, !.busy = FALSE,
                                        !.valid = FALSE]
           /\ \A j \in Slots : j # hnd'[t] => icache'[j] = icache[j]
      ELSE /\ halted' = "iget: no inodes"
           /\ icache' = icache

(* The fields a thread sees after ilock returned are those of the dinode   *)
(* of the entry's identity.                                                *)
LoadedFromDisk ==
  \A t \in Threads :
    pc[t] = "locked" =>
      /\ icache[hnd[t]].valid
      /\ icache[hnd[t]].type = dinodes[icache[hnd[t]].inum].type
      /\ icache[hnd[t]].nlink = dinodes[icache[hnd[t]].inum].nlink

(* C22: iget returns the slot that holds (dev, inum) with references, its  *)
(* count one higher and nothing else changed; otherwise it claims a slot   *)
(* without references, sets its identity and count 1 and clears its flags, *)
(* and stops the kernel when there is none; the entry that ilock has       *)
(* loaded shows the fields of its own dinode, never those the slot held    *)
(* for an earlier identity.                                                *)
C22_Iget ==
  /\ [][\A t \in Threads, inum \in Inums :
          CIget(t, inum) => IgetEffect(t, inum)]_vars
  /\ []LoadedFromDisk

(* iget found every slot taken, one of them claimed for inode 2 while it   *)
(* still holds the link count of inode 1.                                  *)
C22_Witness ==
  /\ halted = "iget: no inodes"
  /\ \E i \in Slots :
       /\ icache[i].ref > 0 /\ ~icache[i].valid /\ icache[i].dev = ROOTDEV
       /\ icache[i].inum = 2 /\ icache[i].nlink = 1
       /\ dinodes[2].nlink = 0

-----------------------------------------------------------------------------
(* Open file objects shared by processes.                                  *)

(* A filedup that leaves the count alone. *)
filedup_noinc(s, f) == Ret(s, f)

filedup(s, f) ==
  IF s.ft[f].ref < 1 THEN Ret(Halt(s, "filedup"), f)
  ELSE Ret([s EXCEPT !.ft[f].ref = @ + 1], f)

(* fileclose under ftable.lock: ret is the copy ff, NoFile when other      *)
(* references remain.                                                      *)
fileclose_locked(s, f) ==
  IF s.ft[f].ref < 1 THEN Ret(Halt(s, "fileclose"), NoFile)
  ELSE IF s.ft[f].ref - 1 > 0 THEN Ret([s EXCEPT !.ft[f].ref = @ - 1], NoFile)
  ELSE Ret([s EXCEPT !.ft[f].ref = 0, !.ft[f].type = FD_NONE], s.ft[f])

(* Processes (the threads) with descriptors for file objects of the files  *)
(* /f and /lmn (/d is a directory, which open_file refuses): hnd is        *)
(* the object a process has descriptors for, nref how many, call the copy  *)
(* ff of a process that is between the two halves of fileclose.            *)
Pending(t) == IF call = NoCall THEN NoFile ELSE call[t]

FOpen(t, path) ==
  /\ Running /\ pc[t] = "idle" /\ hnd[t] = NoSlot
  /\ \E r \in {open_file(lcur, path, frame.cwd, t)} :
       /\ LInstall(r.st)
       /\ hnd' = [hnd EXCEPT ![t] = IF r.ret < 0 THEN NoSlot ELSE r.ret]
       /\ nref' = [nref EXCEPT ![t] = IF r.ret < 0 THEN 0 ELSE 1]
  /\ UNCHANGED <<pc, shadow, call, frame, procs, nextpid, last>>

(* dup by process t (u = t), or fork of t whose child is u: filedup, and   *)
(* one more descriptor for u.                                              *)
FDup(t, u) ==
  /\ Running /\ pc[t] = "idle" /\ pc[u] = "idle" /\ hnd[t] # NoSlot
  /\ hnd[u] \in {NoSlot, hnd[t]} /\ nref[u] < MaxRef
  /\ \E r \in {filedup(lcur, hnd[t])} : LInstall(r.st)
  /\ hnd' = [hnd EXCEPT ![u] = hnd[t]]
  /\ nref' = [nref EXCEPT ![u] = @ + 1]
  /\ UNCHANGED <<pc, shadow, call, frame, procs, nextpid, last>>

(* fileclose up to release(&ftable.lock). *)
FClose(t) ==
  /\ Running /\ pc[t] = "idle" /\ hnd[t] # NoSlot
  /\ \E r \in {fileclose_locked(lcur, hnd[t])} :
       /\ LInstall(r.st)
       /\ pc' = [pc EXCEPT ![t] = IF r.ret.type = FD_INODE THEN "closing"
                                  ELSE "idle"]
       /\ call' = [u \in Threads |-> IF u = t THEN r.ret ELSE Pending(u)]
  /\ nref' = [nref EXCEPT ![t] = @ - 1]
  /\ hnd' = [hnd EXCEPT ![t] = IF nref[t] = 1 THEN NoSlot ELSE @]
  /\ UNCHANGED <<shadow, frame, procs, nextpid, last>>

(* fileclose after release(&ftable.lock): iput of ff.ip. *)
FCloseIput(t) ==
  /\ Running /\ pc[t] = "closing"
  /\ \E r \in {iput(lcur, Pending(t).ip)} : LInstall(r.st)
  /\ pc' = [pc EXCEPT ![t] = "idle"]
  /\ call' = [u \in Threads |-> IF u = t THEN NoFile ELSE Pending(u)]
  /\ UNCHANGED <<hnd, nref, shadow, frame, procs, nextpid, last>>

SharedPaths == {<<"/", "f">>, <<"/", "l", "m", "n">>, <<"/", "d">>}

NextFiles ==
  \E t \in Threads :
    \/ \E path \in SharedPaths : FOpen(t, path)
    \/ \E u \in Threads : FDup(t, u)
    \/ FClose(t)
    \/ FCloseIput(t)

SpecFiles == InitProt /\ [][NextFiles]_vars

(* The file objects in use that refer to cache entry i, and the processes  *)
(* that have yet to iput it for an object they closed.                     *)
ObjectsOf(i) ==
  {f \in DOMAIN ftable :
     ftable[f].ref > 0 /\ ftable[f].type = FD_INODE /\ ftable[f].ip = i}
ClosersOf(i) == {t \in Threads : pc[t] = "closing" /\ Pending(t).ip = i}

(* The descriptors the processes have for file object f. *)
RECURSIVE Descriptors(_, _)
Descriptors(f, t) ==
  IF t \notin Threads THEN 0
  ELSE (IF hnd[t] = f THEN nref[t] ELSE 0) + Descriptors(f, t + 1)

(* C23: the count of a file object is the number of descriptors for it;    *)
(* an inode has one reference for each object in use that refers to it and *)
(* one for each fileclose that took an object's count to 0 and has not yet *)
(* called iput, so the inode of an object is released once, after its last *)
(* descriptor is closed; filealloc returns a slot whose count was 0.       *)
C23_FileRefs ==
  /\ [](Running =>
         /\ \A f \in DOMAIN ftable : ftable[f].ref = Descriptors(f, 1)
         /\ \A i \in Slots :
              i # frame.cwd =>
                icache[i].ref = Cardinality(ObjectsOf(i))
                                + Cardinality(ClosersOf(i))
         /\ \A f \in DOMAIN ftable :
              ftable[f].ref > 0 =>
                /\ icache[ftable[f].ip].ref > 0
                /\ icache[ftable[f].ip].inum \in {FInum, LmnInum})
  /\ [][\A t \in Threads, path \in SharedPaths :
          (FOpen(t, path) /\ hnd'[t] # NoSlot)
            => ftable[hnd'[t]].ref = 0]_vars

(* A process is between the two halves of the fileclose that took the      *)
(* count to 0 while the slot is in use again, with two descriptors, for a  *)
(* new object of the same inode.                                           *)
C23_Witness ==
  \E t, u \in Threads :
    /\ pc[t] = "closing" /\ u # t
    /\ hnd[u] # NoSlot /\ nref[u] = 2
    /\ ftable[hnd[u]].ref = 2
    /\ ftable[hnd[u]].ip = Pending(t).ip
    /\ icache[Pending(t).ip].ref = 2

-----------------------------------------------------------------------------
(* namex as namei and nameiparent call it, by a process whose current      *)
(* directory is the root or /d.                                            *)

(* The contents of name when namex returns the parent: what the last call  *)
(* of skipelem that found an element copied.                               *)
RECURSIVE namex_name(_, _)
namex_name(path, name) ==
  LET sk == skipelem(path)
  IN  IF ~sk.ok THEN name ELSE namex_name(sk.path, sk.name)

nameiparent(s, path, cwd) ==
  Bind(namex(s, path, TRUE, cwd), LAMBDA r :
    [st |-> r.st, ret |-> r.ret, name |-> namex_name(path, <<>>)])

NResolve(path, parent) ==
  /\ Running /\ (call = NoCall \/ call.ret = NoSlot)
  /\ \E r \in {IF parent THEN nameiparent(cur, path, frame.cwd)
               ELSE [st |-> namei(cur, path, frame.cwd).st,
                     ret |-> namei(cur, path, frame.cwd).ret,
                     name |-> <<>>]} :
       /\ Install(r.st)
       /\ call' = [op |-> "namex", path |-> path, parent |-> parent,
                   ret |-> r.ret, name |-> r.name, pre |-> cur]
  /\ UNCHANGED lockvars
  /\ UNCHANGED <<frame, pc, hnd, nref, shadow>>

(* The caller puts the inode it was given. *)
NRelease ==
  /\ Running /\ call # NoCall /\ call.ret # NoSlot
  /\ \E r \in {iput(cur, call.ret)} : Install(r.st)
  /\ call' = NoCall
  /\ UNCHANGED lockvars
  /\ UNCHANGED <<frame, pc, hnd, nref, shadow>>

ResolvePaths ==
  {<<>>, <<"/">>, <<"/", "f">>, <<"f">>, <<"/", "d", "/", "g">>,
   <<"d", "/", "g">>, <<"g">>, <<"/", "f", "/", "g">>, <<"/", "n">>,
   <<"/", "n", "/", "g">>, <<"/", "/", "d", "/", "/", "g", "/">>,
   <<"/", "l", "m", "n", "o">>, <<"/", "d", "/", ".", ".">>, <<"/", "a">>,
   <<"/", "b", "/", "g">>, <<".", ".", "/", "f">>}

NextResolve ==
  \/ \E path \in ResolvePaths, parent \in BOOLEAN : NResolve(path, parent)
  \/ NRelease

SpecResolve == InitPath /\ [][NextResolve]_vars

(* The components of a path, in order, each cut to DIRSIZ characters, read *)
(* off the string: a component starts after a slash or at the start and    *)
(* ends before a slash or at the end.                                      *)
ComponentStart(str, k) ==
  CHOOSE j \in 1 .. k :
    /\ \A m \in j .. k : str[m] # "/"
    /\ (j = 1 \/ str[j - 1] = "/")

RECURSIVE ComponentsUpTo(_, _)
ComponentsUpTo(str, k) ==
  IF k = 0 THEN <<>>
  ELSE IF k \in ComponentEnds(str)
  THEN Append(ComponentsUpTo(str, ComponentStart(str, k) - 1),
              SubSeq(str, ComponentStart(str, k),
                     IF k - ComponentStart(str, k) + 1 > DIRSIZ
                     THEN ComponentStart(str, k) + DIRSIZ - 1 ELSE k))
  ELSE ComponentsUpTo(str, k - 1)

Components(str) == ComponentsUpTo(str, Len(str))

(* The inode the first k components lead to in the tree of Files from the  *)
(* directory dir when no symlink is followed; 0 when one of them is looked *)
(* up in an inode that is not a directory or is not there.                 *)
RECURSIVE WalkTo(_, _, _)
WalkTo(dir, comps, k) ==
  IF k = 0 THEN dir
  ELSE LET p == WalkTo(dir, comps, k - 1)
           hits == IF p = 0 THEN {}
                   ELSE {j \in 1 .. Len(Files[p].cells) :
                           /\ Files[p].cells[j].inum # 0
                           /\ Files[p].cells[j].name = comps[k]}
       IN  IF p = 0 \/ Files[p].type # T_DIR \/ hits = {} THEN 0
           ELSE Files[p].cells[Min(hits)].inum

ResolveStart ==
  IF call.path # <<>> /\ Head(call.path) = "/" THEN ROOTINO
  ELSE call.pre.ic[frame.cwd].inum

(* The entry returned holds inode inum, referenced and not locked. *)
Gives(inum) ==
  /\ call.ret # NoSlot
  /\ icache[call.ret].inum = inum
  /\ icache[call.ret].ref > 0
  /\ ~icache[call.ret].busy

(* C24: namex walks the components of the path from the root when the path *)
(* begins with a slash and from the current directory otherwise.  namei    *)
(* returns the inode the walk ends in, and 0 when a component is looked up *)
(* in an inode that is not a directory or is not found.  nameiparent       *)
(* returns 0 for a path with no component; otherwise it walks all but the  *)
(* last component and returns the inode reached, unlocked, when it is a    *)
(* directory, with the last component (its first DIRSIZ characters) in     *)
(* name, and 0 when it is not.                                             *)
C24_Namex ==
  (call # NoCall /\ call.op = "namex") =>
    LET comps == Components(call.path)
        n == Len(comps)
        target == WalkTo(ResolveStart, comps, IF call.parent THEN n - 1 ELSE n)
    IN  /\ Running
        /\ IF call.parent /\ n = 0 THEN call.ret = NoSlot
           ELSE IF target = 0 \/ (call.parent /\ Files[target].type # T_DIR)
           THEN call.ret = NoSlot
           ELSE /\ Gives(target)
                /\ call.parent => call.name = comps[n]

(* nameiparent of //d//g/ from /d gave the directory d of the root and the *)
(* name g; nameiparent of /lmno gave the root and lmn; namei of g from /d  *)
(* gave inode GInum.                                                       *)
C24_Witness ==
  /\ call # NoCall /\ call.op = "namex"
  /\ call.pre.ic[frame.cwd].inum = DInum
  /\ call.parent
  /\ call.path = <<"/", "/", "d", "/", "/", "g", "/">>
  /\ Gives(DInum) /\ call.name = <<"g">>

-----------------------------------------------------------------------------
(* The password on disk after filefprot and filefunprot.                   *)

(* filefprot or filefunprot has returned 0. *)
PasswordSet ==
  /\ last.op \in {"filefprot", "filefunprot"}
  /\ last.done /\ last.ret = 0

(* C25 as stated: after filefprot or filefunprot has returned success, the *)
(* password of the on-disk dinode is the password of the inode in memory.  *)
C25_AsStated ==
  PasswordSet =>
    dinodes[Target(last.path)].password = Password(Target(last.path))

(* C25, what holds: filefprot and filefunprot change the password of the   *)
(* cache entry only; no call of filefprot, filefunprot, open or fileclose  *)
(* writes a dinode: every dinode is as it was at boot, and after filefprot *)
(* has returned 0 the entry has a password and the dinode has none.        *)
C25_MemoryOnly ==
  /\ dinodes = ImageState.di
  /\ (PasswordSet /\ last.op = "filefprot")
       => /\ Password(Target(last.path)) # <<>>
          /\ dinodes[Target(last.path)].password = <<>>

(* filefprot has set the password a in the cache entry of /f; the dinode   *)
(* has none.                                                               *)
C25_Witness ==
  /\ PasswordSet /\ last.op = "filefprot"
  /\ Target(last.path) = FInum
  /\ Password(FInum) = <<"a">>
  /\ dinodes[FInum].password = <<>>

-----------------------------------------------------------------------------
(* iput's truncate-and-free section in two steps, on inodes with content:  *)
(* "trunc" before itrunc, "type" before the type is cleared and written,   *)
(* "end" before the second critical section.                               *)

(* The holder of the lock fills the empty file up to its last block. *)
CWrite(t) ==
  /\ Running /\ pc[t] = "locked" /\ icache[hnd[t]].size = 0
  /\ icache[hnd[t]].type = T_FILE
  /\ Install(writei(cur, hnd[t], [j \in 1 .. EndFile |-> 1], 0).st)
  /\ UNCHANGED lockvars
  /\ UNCHANGED <<frame, pc, hnd, nref, shadow, call>>

CItrunc(t) ==
  /\ Running /\ pc[t] = "trunc"
  /\ Install(itrunc(cur, hnd[t]).st)
  /\ pc' = [pc EXCEPT ![t] = "type"]
  /\ call' = [NoCall EXCEPT !.op = "itrunc", !.ip = hnd[t],
                            !.reach = Reach(cur, hnd[t])]
  /\ UNCHANGED lockvars
  /\ UNCHANGED <<frame, hnd, nref, shadow>>

CIputType(t) ==
  /\ Running /\ pc[t] = "type"
  /\ Install(iupdate([cur EXCEPT !.ic[hnd[t]].type = 0], hnd[t]).st)
  /\ pc' = [pc EXCEPT ![t] = "end"]
  /\ UNCHANGED lockvars
  /\ UNCHANGED <<frame, hnd, nref, shadow, call>>

NextFree ==
  \E t \in Threads :
    \/ \E inum \in Inums : CIget(t, inum)
    \/ CIalloc(t)
    \/ CIlock(t)
    \/ CIlockLoad(t)
    \/ CWrite(t)
    \/ CIunlock(t)
    \/ CLink(t, 0)
    \/ CIput(t)
    \/ CItrunc(t)
    \/ CIputType(t)
    \/ CIputEnd(t)

SpecFree == InitCache /\ [][NextFree]_vars

(* The blocks the on-disk inode inum reaches. *)
DiskReach(inum) ==
  ReachOf(cur, dinodes[inum].addrs, dinodes[inum].indirect2)

Freeing(t) == pc[t] \in {"trunc", "type", "end"}

(* C26: a thread in iput's truncate-and-free section has the busy flag of  *)
(* the entry, which has a reference, all the way; itrunc frees every block *)
(* the index map reaches and leaves size 0 and an empty map in the entry   *)
(* and on disk while the type on disk is still set; the type on disk is    *)
(* cleared only for an inode that has size 0 and no blocks on disk, by the *)
(* step from "type" to "end"; the flags are cleared and the reference is   *)
(* dropped only by the step that follows it (by then ialloc may have given *)
(* the inode out again); no thread that unlocks before its iput meets      *)
(* "iput busy".                                                            *)
C26_FreeOrder ==
  /\ [](halted # "iput busy")
  /\ [](\A t \in Threads :
          Freeing(t) =>
            /\ icache[hnd[t]].busy /\ icache[hnd[t]].ref >= 1
            /\ pc[t] = "trunc" =>
                 /\ icache[hnd[t]].valid /\ icache[hnd[t]].nlink = 0
                 /\ dinodes[icache[hnd[t]].inum].type # 0
            /\ pc[t] = "type" =>
                 /\ ZeroMap(icache[hnd[t]])
                 /\ DiskReach(icache[hnd[t]].inum) = {}
                 /\ dinodes[icache[hnd[t]].inum].size = 0
                 /\ dinodes[icache[hnd[t]].inum].type # 0
            /\ pc[t] = "end" => icache[hnd[t]].type = 0)
  /\ [][\A t \in Threads :
          CItrunc(t) => \A b \in Reach(cur, hnd[t]) : bitmap[b] /\ ~bitmap'[b]]_vars
  /\ [][\A inum \in Inums :
          (dinodes[inum].type # 0 /\ dinodes'[inum].type = 0)
            => /\ DiskReach(inum) = {} /\ dinodes[inum].size = 0
               /\ \E t \in Threads : pc[t] = "type" /\ pc'[t] = "end"]_vars
  /\ [][\A t \in Threads :
          (Freeing(t) /\ ~icache'[hnd[t]].busy)
            => /\ pc[t] = "end" /\ pc'[t] = "idle"
               /\ icache'[hnd[t]].ref = icache[hnd[t]].ref - 1]_vars

(* A thread is about to leave the section for a file whose map reached     *)
(* blocks through the double-indirect block, and another thread that got   *)
(* the freed inode from ialloc is asleep in ilock on the entry.            *)
C26_Witness ==
  \E t, u \in Threads :
    /\ pc[t] = "end" /\ call.op = "itrunc" /\ call.ip = hnd[t]
    /\ Cardinality(call.reach) > MAXFILE + 2
    /\ pc[u] = "sleep" /\ hnd[u] = hnd[t]

-----------------------------------------------------------------------------
(* The threads on the inode cache under a fair scheduler: a thread that    *)
(* was woken runs again, a thread that took the busy flag goes on to       *)
(* iunlock, and a thread inside iput goes on to the end of iput.           *)
FairCache ==
  \A t \in Threads :
    /\ WF_vars(pc[t] = "run" /\ CIlock(t))
    /\ WF_vars(CIlockLoad(t))
    /\ WF_vars(CIunlock(t))
    /\ WF_vars(CIputFree(t))
    /\ WF_vars(CIputEnd(t))

NextWait ==
  \E t \in Threads :
    \/ \E inum \in Inums : CIget(t, inum)
    \/ CIalloc(t)
    \/ CIlock(t)
    \/ CIlockLoad(t)
    \/ CIunlock(t)
    \/ CLink(t, 0)
    \/ CIput(t)
    \/ CIputFree(t)
    \/ CIputEnd(t)

SpecWait == InitCache /\ [][NextWait]_vars /\ FairCache

(* The slots two inodes can occupy. *)
WaitSlots == 0 .. (NINODES - 1)

Asleep(i) == \E t \in Threads : pc[t] = "sleep" /\ hnd[t] = i
Acquires(i) == \E u \in Threads : pc[u] = "load" /\ hnd[u] = i

(* C27: a thread asleep in ilock sleeps on an entry whose busy flag is set *)
(* and that a thread holds (whoever clears the flag wakes the sleepers in  *)
(* the same critical section); and when the threads that take the flag go  *)
(* on to clear it and the scheduler is fair, a thread asleep on an entry   *)
(* is followed by some thread that takes the flag of that entry, unless    *)
(* the kernel has panicked.                                                *)
C27_NoLostWakeup ==
  /\ [](\A t \in Threads :
          pc[t] = "sleep" =>
            /\ icache[hnd[t]].busy
            /\ \E u \in Threads \ {t} :
                 hnd[u] = hnd[t] /\ pc[u] \in {"load", "locked", "trunc", "end"})
  /\ \A i \in WaitSlots : Asleep(i) ~> (Acquires(i) \/ ~Running)

(* A thread that was woken has yet to run, and another thread has taken    *)
(* the flag of the entry in the meantime.                                  *)
C27_Witness ==
  \E t, u \in Threads :
    /\ pc[t] = "run" /\ pc[u] = "load" /\ hnd[u] = hnd[t]

-----------------------------------------------------------------------------
(* References and locks left behind by filereadlink and filereadlinki.     *)

(* The first call of the behaviour has returned; before it the only        *)
(* reference in the cache was the one of the current directory.            *)
FirstReturned == frame.at = "done" /\ call.nw = 0

RefBefore(i) == IF i = frame.cwd THEN 1 ELSE 0

(* C29 as stated: when the call has returned, every cache entry has the    *)
(* reference count it had before the call.                                 *)
C29_AsStated ==
  FirstReturned => \A i \in Slots : icache[i].ref = RefBefore(i)

(* C29, what holds: no entry has fewer references than before the call,    *)
(* and a call of filereadlink that returns a path other than "/" leaves at *)
(* least one reference more than there was (each inode namei returned      *)
(* keeps the reference namei took; filereadlinki does not call namei on    *)
(* the last element).                                                      *)
C29_Leaked ==
  FirstReturned =>
    /\ \A i \in Slots : icache[i].ref >= RefBefore(i)
    /\ (frame.fn = "filereadlink" /\ frame.ret >= 0 /\ frame.why # "root")
         => RefSum(icache, 0) > 1

(* The call on /d/g has returned /d/g and left a reference to d and one to *)
(* g: three references where there was one.                                *)
C29_Witness ==
  /\ FirstReturned /\ frame.ret >= 0 /\ frame.fn = "filereadlink"
  /\ frame.pathname = <<"/", "d", "/", "g">>
  /\ RefSum(icache, 0) = 3
  /\ \E i \in Slots : icache[i].inum = GInum /\ icache[i].ref = 1

(* C30 as stated: when the call has returned, no cache entry is busy.      *)
C30_AsStated ==
  frame.at = "done" => \A i \in Slots : ~icache[i].busy

(* C30, what holds: the returns other than the one for an intermediate     *)
(* element that is a regular file or a device leave no entry busy; that    *)
(* one leaves the entry of the file busy.                                  *)
C30_BusyLeft ==
  frame.at = "done" =>
    IF frame.why = "notdir"
    THEN \E i \in Slots :
           /\ icache[i].busy /\ icache[i].ref > 0
           /\ icache[i].type \in {T_FILE, T_DEV}
    ELSE \A i \in Slots : ~icache[i].busy

(* The call on /f/g has returned -1 and the entry of f is busy.            *)
C30_Witness ==
  /\ frame.at = "done" /\ frame.ret = 0 - 1
  /\ frame.pathname = <<"/", "f", "/", "g">>
  /\ \E i \in Slots : icache[i].inum = FInum /\ icache[i].busy

-----------------------------------------------------------------------------
(* Concurrent resolutions: each thread runs namex on the image tree, one   *)
(* step per critical section of icache.lock or per stretch under an inode  *)
(* lock.  hnd[t] is ip (the result once the thread is at "done"), call[t]  *)
(* the arguments, what is left of the path, and name.                      *)

NoWalk == [path |-> <<>>, rest |-> <<>>, parent |-> FALSE, name |-> <<>>,
           ret |-> "none"]

InitWalk ==
  /\ \E cwd \in {DInum} :
       LET r == iget(ImageState, ROOTDEV, cwd)
       IN  /\ icache = r.st.ic
           /\ dinodes = r.st.di
           /\ bitmap = r.st.bm
           /\ disk = r.st.dk
           /\ halted = r.st.halt
           /\ frame = [NoFrame EXCEPT !.cwd = r.ret]
  /\ pc = [t \in Threads |-> "idle"]
  /\ hnd = [t \in Threads |-> NoSlot]
  /\ nref = [t \in Threads |-> 0]
  /\ shadow = [i \in Inums |-> <<>>]
  /\ call = [t \in Threads |-> NoWalk]
  /\ LockUnused

(* namex up to the while loop: iget of the root or idup of the cwd. *)
WStart(t, path, parent) ==
  /\ Running /\ pc[t] = "idle"
  /\ \E r \in {IF path # <<>> /\ Head(path) = "/"
               THEN iget(cur, ROOTDEV, ROOTINO) ELSE idup(cur, frame.cwd)} :
       /\ Install(r.st)
       /\ hnd' = [hnd EXCEPT ![t] = r.ret]
  /\ pc' = [pc EXCEPT ![t] = "walk"]
  /\ call' = [call EXCEPT ![t] = [NoWalk EXCEPT !.path = path, !.rest = path,
                                                !.parent = parent]]
  /\ UNCHANGED lockvars
  /\ UNCHANGED <<frame, nref, shadow>>

(* The head of the while loop, and what follows the loop when skipelem     *)
(* returns 0.                                                              *)
WNext(t) ==
  /\ Running /\ pc[t] = "walk"
  /\ \E sk \in {skipelem(call[t].rest)} :
       IF sk.ok
       THEN /\ call' = [call EXCEPT ![t].rest = sk.path, ![t].name = sk.name]
            /\ pc' = [pc EXCEPT ![t] = "lock"]
            /\ UNCHANGED <<icache, dinodes, bitmap, disk, halted, hnd>>
       ELSE IF call[t].parent
       THEN /\ Install(iput(cur, hnd[t]).st)
            /\ hnd' = [hnd EXCEPT ![t] = NoSlot]
            /\ call' = [call EXCEPT ![t].ret = "fail"]
            /\ pc' = [pc EXCEPT ![t] = "done"]
       ELSE /\ call' = [call EXCEPT ![t].ret = "ok"]
            /\ pc' = [pc EXCEPT ![t] = "done"]
            /\ UNCHANGED <<icache, dinodes, bitmap, disk, halted, hnd>>
  /\ UNCHANGED lockvars
  /\ UNCHANGED <<frame, nref, shadow>>

(* ilock(ip) up to release(&icache.lock): sleep, or take the busy flag. *)
WLock(t) ==
  /\ Running /\ pc[t] \in {"lock", "run"}
  /\ IF ilock_mustsleep(icache[hnd[t]])
     THEN /\ pc' = [pc EXCEPT ![t] = "sleep"]
          /\ UNCHANGED <<icache, dinodes, bitmap, disk, halted>>
     ELSE /\ Install([cur EXCEPT !.ic[hnd[t]].busy = TRUE])
          /\ pc' = [pc EXCEPT ![t] = "load"]
  /\ UNCHANGED lockvars
  /\ UNCHANGED <<frame, hnd, nref, shadow, call>>

WLoad(t) ==
  /\ Running /\ pc[t] = "load"
  /\ Install(ilock_load(cur, hnd[t]).st)
  /\ pc' = [pc EXCEPT ![t] = "held"]
  /\ UNCHANGED lockvars
  /\ UNCHANGED <<frame, hnd, nref, shadow, call>>

(* The body of the loop under the lock of ip, to the unlock: the type      *)
(* test, the early return of nameiparent, dirlookup, iunlockput.           *)
WStep(t) ==
  /\ Running /\ pc[t] = "held"
  /\ LET ip == hnd[t]
     IN  IF icache[ip].type # T_DIR
         THEN /\ Install(iunlockput(cur, ip).st)
              /\ hnd' = [hnd EXCEPT ![t] = NoSlot]
              /\ call' = [call EXCEPT ![t].ret = "fail"]
              /\ pc' = [wakeup(pc, hnd, ip) EXCEPT ![t] = "done"]
         ELSE IF call[t].parent /\ call[t].rest = <<>>
         THEN /\ Install(iunlock(cur, ip).st)
              /\ call' = [call EXCEPT ![t].ret = "ok"]
              /\ pc' = [wakeup(pc, hnd, ip) EXCEPT ![t] = "done"]
              /\ hnd' = hnd
         ELSE \E r \in {dirlookup(cur, ip, call[t].name)} :
                /\ Install(iunlockput(r.st, ip).st)
                /\ hnd' = [hnd EXCEPT ![t] = r.ret]
                /\ call' = [call EXCEPT ![t].ret =
                              IF r.ret = NoSlot THEN "fail" ELSE @]
                /\ pc' = [wakeup(pc, hnd, ip) EXCEPT
                            ![t] = IF r.ret = NoSlot THEN "done" ELSE "walk"]
  /\ UNCHANGED lockvars
  /\ UNCHANGED <<frame, nref, shadow>>

(* The caller is done with what namex returned. *)
WDone(t) ==
  /\ Running /\ pc[t] = "done"
  /\ IF hnd[t] = NoSlot
     THEN UNCHANGED <<icache, dinodes, bitmap, disk, halted>>
     ELSE Install(iput(cur, hnd[t]).st)
  /\ hnd' = [hnd EXCEPT ![t] = NoSlot]
  /\ pc' = [pc EXCEPT ![t] = "idle"]
  /\ call' = [call EXCEPT ![t] = NoWalk]
  /\ UNCHANGED lockvars
  /\ UNCHANGED <<frame, nref, shadow>>

(* nameiparent of /d/g; namei of ../f/g, which fails at the file f; namei   *)
(* of the root.                                                            *)
WalkInputs ==
  {<<<<"/", "d", "/", "g">>, TRUE>>,
   <<<<".", ".", "/", "f", "/", "g">>, FALSE>>,
   <<<<"/">>, FALSE>>}

NextWalk ==
  \E t \in Threads :
    \/ \E a \in WalkInputs : WStart(t, a[1], a[2])
    \/ WNext(t)
    \/ WLock(t)
    \/ WLoad(t)
    \/ WStep(t)
    \/ WDone(t)

SpecWalk == InitWalk /\ [][NextWalk]_vars

(* The threads whose ip is entry i, and those among them under its lock. *)
Walkers(i) == {t \in Threads : hnd[t] = i}
LockHolders(i) == {t \in Walkers(i) : pc[t] \in {"load", "held"}}

(* C31: the busy entries are those a thread is in the loop body of, one    *)
(* thread each, so a thread has the busy flag of no inode but its ip, and  *)
(* of none while it sleeps, waits to lock, or has returned; a thread       *)
(* asleep sleeps on an entry whose holder is not asleep.  The references   *)
(* of an entry are the one of the current directory and one for each       *)
(* thread whose ip or result it is: a namex that has returned failure      *)
(* holds no reference, one that has returned an inode holds one reference  *)
(* to it, and the inode is not busy on its account.                        *)
C31_WalkDiscipline ==
  /\ Running
  /\ \A i \in Slots :
       /\ icache[i].busy <=> LockHolders(i) # {}
       /\ Cardinality(LockHolders(i)) <= 1
       /\ icache[i].ref = (IF i = frame.cwd THEN 1 ELSE 0)
                          + Cardinality(Walkers(i))
  /\ \A t \in Threads :
       /\ pc[t] = "sleep" => LockHolders(hnd[t]) \ {t} # {}
       /\ pc[t] = "done" =>
            /\ call[t].ret = "fail" <=> hnd[t] = NoSlot
            /\ call[t].ret = "ok" <=> hnd[t] # NoSlot
       /\ pc[t] = "idle" => hnd[t] = NoSlot

(* One thread has returned the directory d from nameiparent of /d/g while  *)
(* another, on its way through d, holds the lock of d.                     *)
C31_Witness ==
  \E t, u \in Threads :
    /\ pc[t] = "done" /\ call[t].ret = "ok" /\ call[t].parent
    /\ icache[hnd[t]].inum = DInum
    /\ pc[u] = "held" /\ hnd[u] = hnd[t]
    /\ icache[hnd[t]].ref >= 2

-----------------------------------------------------------------------------
(* The exemption table while inodes are freed and their numbers handed out *)
(* again: grants on the entries of f and lmn, unlink, iput, ialloc, and    *)
(* iget of the same number on another device.                              *)

(* The entry's file is unlinked: ilock; nlink = 0; iupdate; iunlock. *)
EUnlink(ip) ==
  /\ Running /\ ip \in Granted /\ icache[ip].dev = ROOTDEV
  /\ dinodes[icache[ip].inum].nlink > 0
  /\ \E r \in {rel_fill(lcur, ip, 0, 0)} :
       /\ LInstall(r.st)
       /\ last' = [Snapshot("unlink", 0, <<>>, <<>>, r)
                     EXCEPT !.n = icache[ip].inum]
  /\ UNCHANGED <<pc, hnd, nref, shadow, call, frame, procs, nextpid>>

EPut(ip) ==
  /\ Running /\ ip \in Granted
  /\ \E r \in {iput(lcur, ip)} :
       /\ LInstall(r.st)
       /\ last' = [Snapshot("iput", 0, <<>>, <<>>, r)
                     EXCEPT !.n = icache[ip].inum]
  /\ UNCHANGED <<pc, hnd, nref, shadow, call, frame, procs, nextpid>>

(* A file is created when some dinode is free: last.n is its number and    *)
(* last.ret its entry.                                                     *)
ECreate ==
  /\ Running /\ \E i \in DOMAIN dinodes : dinodes[i].type = 0
  /\ \E r \in {Then(ialloc(lcur, T_FILE), LAMBDA s1, ip :
                 Then(ilock(s1, ip), LAMBDA s2, x : unlock_return(s2, ip, ip)))} :
       /\ LInstall(r.st)
       /\ last' = [Snapshot("ialloc", 0, <<>>, <<>>, r)
                     EXCEPT !.n = r.st.ic[r.ret].inum]
  /\ UNCHANGED <<pc, hnd, nref, shadow, call, frame, procs, nextpid>>

(* The inode with the number inum of another device is fetched. *)
EOther(inum) ==
  /\ Running
  /\ \A i \in Slots : ~iget_hit(icache[i], OTHERDEV, inum)
  /\ \E r \in {iget(lcur, OTHERDEV, inum)} :
       /\ LInstall(r.st)
       /\ last' = [Snapshot("iget", 0, <<>>, <<>>, r) EXCEPT !.n = inum]
  /\ UNCHANGED <<pc, hnd, nref, shadow, call, frame, procs, nextpid>>

NextReuse ==
  \/ \E p \in procs, ip \in Granted : TGrant(p, ip)
  \/ \E ip \in Granted : EUnlink(ip)
  \/ \E ip \in Granted : EPut(ip)
  \/ ECreate
  \/ EOther(FInum)

SpecReuse == InitTable /\ [][NextReuse]_vars

(* The last call handed out an inode: a new one from ialloc, or the one of *)
(* the other device.                                                       *)
HandedOut == last.op \in {"ialloc", "iget"} /\ last.done

(* C32 as stated: no process is exempt for an inode that ialloc has just   *)
(* handed out, or for the inode with the same number on another device.    *)
C32_AsStated ==
  HandedOut => \A p \in procs : ~is_inode_unlocked(lcur, last.ret, p)

(* C32, what holds: unlink, iput, ialloc and iget leave the table as it    *)
(* is, and the processes exempt for the inode handed out are those whose   *)
(* pid is in the row of its number: the ones that were granted the former  *)
(* inode of that number.                                                   *)
C32_ByNumber ==
  /\ last.op \in {"unlink", "iput", "ialloc", "iget"}
       => unlocked_inodes = last.preui
  /\ HandedOut =>
       \A p \in procs :
         is_inode_unlocked(lcur, last.ret, p) <=> p \in Exempt(last.preui, last.n)

(* ialloc has handed out the number of f again, for a new file without     *)
(* password, and process 1, which was granted the old f, is exempt.        *)
C32_Witness ==
  /\ HandedOut /\ last.op = "ialloc" /\ last.n = FInum
  /\ icache[last.ret].type = T_FILE /\ icache[last.ret].size = 0
  /\ icache[last.ret].password = <<>>
  /\ is_inode_unlocked(lcur, last.ret, 1)

====
